---- MODULE Spec2Model ----
(***************************************************************************)
(* ionos-cloud-watchdog: the health aggregation engine (RunChecks and its  *)
(* three probers), the command layer that drives it (runChecks,            *)
(* runWatchMode, runCheckOnce), the status-feed analyzer (analyzeEntries)   *)
(* and, each called on its own, checkStatusPage, the issue aggregation of  *)
(* checkK8s, CheckAuthentication, the cloud walks, CheckDBaaS, CheckHealth *)
(* with its per-resource checks, and the credential resolution.            *)
(*                                                                         *)
(* Strings built with fmt.Sprintf are sequences of their parts, e.g.       *)
(* Sprintf("DC %s: %s", n, i) is <<"DC ", n, ": ", i>>.  A nil pointer or   *)
(* an unset slice is the empty tuple None, a set one is Some(v) = <<v>>.   *)
(***************************************************************************)
EXTENDS Integers, Sequences, FiniteSets, TLC

VARIABLES
    mainpc,      \* position of the main goroutine (command layer and RunChecks)
    watch,       \* the --watch flag (seconds, 0 = disabled)
    outputFmt,   \* the --output flag
    osEnv,       \* the process environment (IONOS_TOKEN, IONOS_USERNAME, IONOS_PASSWORD)
    first,       \* runWatchMode's local `first`
    cycle,       \* number of calls of runCheckOnce so far
    sleeps,      \* history: number of time.Sleep calls of runWatchMode that returned
    rendered,    \* what runCheckOnce has written to stdout in this cycle
    exitCode,    \* None until os.Exit(code) is called or the process ends
    cmdErr,      \* the error runChecks returned to cobra, None if none
    report,      \* the Report object of the current RunChecks call
    issues,      \* RunChecks' local `issues`, shared with the three goroutines
    wg,          \* the sync.WaitGroup counter
    pc,          \* position of each prober goroutine
    todo,        \* the issues a prober is about to append after its last call
    local,       \* the slice value a prober has loaded in an append in progress
    appended,    \* history: the issues each prober has appended, in order
    outcome,     \* history: how each prober's run ended
    ret,         \* the value RunChecks returned, None before it returns
    crashed,     \* a goroutine panicked (nil dereference, negative WaitGroup)
    feedIn,      \* analyzeEntries: the entries and the clock
    feedOut,     \* analyzeEntries: the result, None before the call
    callIn,      \* a function called on its own: its receiver, arguments and backend answers
    callOut      \* that call's result, None before the call

vars == <<mainpc, watch, outputFmt, osEnv, first, cycle, sleeps, rendered, exitCode,
          cmdErr, report, issues, wg, pc, todo, local, appended, outcome,
          ret, crashed, feedIn, feedOut, callIn, callOut>>

cmdVars  == <<mainpc, watch, outputFmt, osEnv, first, cycle, sleeps, rendered, exitCode, cmdErr>>
aggVars  == <<report, issues, wg, pc, todo, local, appended, outcome, ret, crashed>>
feedVars == <<feedIn, feedOut>>
callVars == <<callIn, callOut>>

None == <<>>
Some(v) == <<v>>
NoErr == <<>>       \* a nil error; an error is the sequence of its message parts

(***************************************************************************)
(* Bounds of the model.                                                    *)
(***************************************************************************)
\* feed entries handed to analyzeEntries
MaxEntries == 2
\* active incidents on the status page during a process run
MaxIncidents == 1
\* time.Now(), in hours
NowHour == 100
\* runCheckOnce calls explored in watch mode
MaxCycles == 2
\* issues on one datacenter / managed cluster
MaxEntityIssues == 1
\* items in one problem list of a HealthResult, children of one cloud entity
MaxItems == 1
\* datacenters / managed clusters one list call returns
MaxEntities == MaxItems + 1

(***************************************************************************)
(* fmt's %d.                                                               *)
(***************************************************************************)
Digit == <<"0", "1", "2", "3", "4", "5", "6", "7", "8", "9">>

RECURSIVE Itoa(_)
Itoa(n) == IF n < 10 THEN <<Digit[n + 1]>>
           ELSE Itoa(n \div 10) \o <<Digit[(n % 10) + 1]>>

(***************************************************************************)
(* internal/feed: analyzeEntries.                                          *)
(*                                                                         *)
(* A content string is a sequence of words.  strings.ToLower maps each     *)
(* word to its lower-case form; strings.Contains(content, kw) holds when   *)
(* kw is a substring of one of the words.                                  *)
(***************************************************************************)
StatusOK == "OK"
StatusWarning == "WARNING"
StatusCritical == "CRITICAL"

activeKeywords == <<"investigating", "identified", "monitoring", "in progress", "currently">>
resolvedKeywords == <<"resolved", "completed", "no customer impact">>

ToLowerWord(w) ==
    CASE w = "Investigating" -> "investigating"
      [] w = "RESOLVED"      -> "resolved"
      [] w = "Currently"     -> "currently"
      [] OTHER               -> w

ToLower(content) == [i \in 1..Len(content) |-> ToLowerWord(content[i])]

\* kw is a substring of the word w
SubstringOfWord(kw, w) ==
    \/ w = kw
    \/ w = "unresolved" /\ kw = "resolved"

Contains(content, kw) == \E i \in 1..Len(content) : SubstringOfWord(kw, content[i])

ContainsAny(content, keywords) ==
    \E k \in 1..Len(keywords) : Contains(content, keywords[k])

\* 24 * time.Hour, in hours
CutoffHours == 24

\* time.Parse(time.RFC3339, s): Updated is [valid, t]; valid = FALSE is a
\* string that does not parse.
ParseOK(updated) == updated.valid

\* updated.Before(cutoff)
Before_mut(t, u) == t <= u

Before(t, u) == t < u

\* the loop body's decision for one entry: is it appended to activeIncidents
IsActive_mut(entry, cutoff) ==
    IF ~ParseOK(entry.Updated) THEN FALSE
    ELSE IF Before(entry.Updated.t, cutoff) THEN FALSE
    ELSE ContainsAny(ToLower(entry.Content), activeKeywords)

IsActive(entry, cutoff) ==
    IF ~ParseOK(entry.Updated) THEN FALSE
    ELSE IF Before(entry.Updated.t, cutoff) THEN FALSE
    ELSE LET contentLower == ToLower(entry.Content)
         IN  IF ContainsAny(contentLower, resolvedKeywords) THEN FALSE
             ELSE ContainsAny(contentLower, activeKeywords)

RECURSIVE CollectActive(_, _)
CollectActive(entries, cutoff) ==
    IF entries = <<>> THEN <<>>
    ELSE (IF IsActive(Head(entries), cutoff) THEN <<Head(entries)>> ELSE <<>>)
         \o CollectActive(Tail(entries), cutoff)

StatusResultOf_mut(activeIncidents) ==
    IF Len(activeIncidents) = 0
    THEN [Status |-> StatusOK, ActiveIncidents |-> activeIncidents,
          Message |-> <<"No active incidents">>]
    ELSE IF Len(activeIncidents) <= 2
    THEN [Status |-> StatusWarning, ActiveIncidents |-> activeIncidents,
          Message |-> <<"1 active incident: ", activeIncidents[1].Title>>]
    ELSE [Status |-> StatusCritical, ActiveIncidents |-> activeIncidents,
          Message |-> Itoa(Len(activeIncidents)) \o <<" active incidents">>]

StatusResultOf(activeIncidents) ==
    IF Len(activeIncidents) = 0
    THEN [Status |-> StatusOK, ActiveIncidents |-> activeIncidents,
          Message |-> <<"No active incidents">>]
    ELSE IF Len(activeIncidents) = 1
    THEN [Status |-> StatusWarning, ActiveIncidents |-> activeIncidents,
          Message |-> <<"1 active incident: ", activeIncidents[1].Title>>]
    ELSE [Status |-> StatusCritical, ActiveIncidents |-> activeIncidents,
          Message |-> Itoa(Len(activeIncidents)) \o <<" active incidents">>]

analyzeEntries(entries, now) ==
    StatusResultOf(CollectActive(entries, now - CutoffHours))


(***************************************************************************)
(* internal/feed: CheckStatus.  fetch is what the HTTP GET and the XML     *)
(* decoding produce: an error, or the feed's entries.                      *)
(***************************************************************************)
CheckStatus(fetch, now) ==
    IF fetch.err # NoErr
    THEN [result |-> None, err |-> <<"error fetching status page: ">> \o fetch.err]
    ELSE [result |-> Some(analyzeEntries(fetch.entries, now)), err |-> NoErr]

(***************************************************************************)
(* internal/ionos: NewClientFromEnv.  The environment is a record of the   *)
(* four variables, "" when unset.                                          *)
(***************************************************************************)
DefaultAPIURL == <<"https://api.ionos.com/cloudapi/v6">>

NewClientFromEnv(env) ==
    LET base == IF env.IONOS_API_URL # "" THEN <<env.IONOS_API_URL, "/cloudapi/v6">>
                ELSE DefaultAPIURL
    IN  IF env.IONOS_TOKEN # ""
        THEN [client |-> Some([BaseURL |-> base, Token |-> env.IONOS_TOKEN,
                               Username |-> "", Password |-> ""]),
              err |-> NoErr]
        ELSE IF env.IONOS_USERNAME = "" \/ env.IONOS_PASSWORD = ""
        THEN [client |-> None,
              err |-> <<"IONOS credentials not found: set IONOS_TOKEN or IONOS_USERNAME/IONOS_PASSWORD">>]
        ELSE [client |-> Some([BaseURL |-> base, Token |-> "",
                               Username |-> env.IONOS_USERNAME,
                               Password |-> env.IONOS_PASSWORD]),
              err |-> NoErr]

\* CheckConnectivity: net is "response" (any HTTP response) or "failure"
CheckConnectivity(net) ==
    IF net = "failure"
    THEN [OK |-> FALSE, Message |-> <<"API unreachable: ", "network error">>]
    ELSE [OK |-> TRUE, Message |-> <<"IONOS API is reachable">>]

\* CheckAuthentication: resp is [err, StatusCode], err # NoErr when the
\* request got no response
CheckAuthentication(resp) ==
    IF resp.err # NoErr
    THEN [OK |-> FALSE, Message |-> <<"Request failed: ", "network error">>]
    ELSE IF resp.StatusCode = 401
    THEN [OK |-> FALSE, Message |-> <<"Authentication failed: invalid credentials">>]
    ELSE IF resp.StatusCode = 403
    THEN [OK |-> FALSE, Message |-> <<"Authentication failed: insufficient permissions">>]
    ELSE IF resp.StatusCode >= 200 /\ resp.StatusCode < 300
    THEN [OK |-> TRUE, Message |-> <<"Authentication successful">>]
    ELSE [OK |-> FALSE, Message |-> <<"Unexpected status code: ">> \o Itoa(resp.StatusCode)]

(***************************************************************************)
(* internal/output: Report, RunChecks and the three probers.               *)
(***************************************************************************)
Probers == {"feed", "cloud", "k8s"}

NewReport ==
    [Status |-> "OK", StatusPage |-> None, APICheck |-> None, AuthCheck |-> None,
     Datacenters |-> None, Clusters |-> None, DBaaS |-> None, Health |-> None,
     Issues |-> <<>>]

\* wg.Add(3)
WgAddCount_mut == 3 - 1

WgAddCount == 3

\* the severity thresholds of RunChecks
SeverityOf_mut(n) ==
    IF n > 4 THEN "CRITICAL" ELSE IF n > 0 THEN "WARNING" ELSE "OK"

SeverityOf(n) ==
    IF n > 3 THEN "CRITICAL" ELSE IF n > 0 THEN "WARNING" ELSE "OK"

\* checkStatusPage: the issues of a fetched, non-OK status result
StatusPageIssues_mut(statusResult) ==
    IF Len(statusResult.ActiveIncidents) > 0
    THEN [i \in 1..Len(statusResult.ActiveIncidents) |->
             <<"Status page: ", statusResult.ActiveIncidents[i].Title>>]
    ELSE IF statusResult.Status # StatusOK
    THEN << <<"Status page: ", statusResult.Status>> >>
    ELSE <<>>

StatusPageIssues(statusResult) ==
    IF statusResult.Status # StatusOK
    THEN IF Len(statusResult.ActiveIncidents) > 0
         THEN [i \in 1..Len(statusResult.ActiveIncidents) |->
                  <<"Status page: ", statusResult.ActiveIncidents[i].Title>>]
         ELSE << <<"Status page: ", statusResult.Status>> >>
    ELSE <<>>

\* checkIONOS: the fixed-text issue of a failed connectivity / authentication check
CheckIssue_mut(result, text) == IF result.OK THEN << <<text>> >> ELSE <<>>

CheckIssue(result, text) == IF ~result.OK THEN << <<text>> >> ELSE <<>>

\* checkIONOS: "<prefix> <name>: <issue>" for every issue of every status
RECURSIVE EntityIssues(_, _)
EntityIssues(prefix, statuses) ==
    IF statuses = <<>> THEN <<>>
    ELSE LET status == Head(statuses)
         IN  [i \in 1..Len(status.Issues) |->
                 <<prefix, status.Name, ": ">> \o status.Issues[i]]
             \o EntityIssues(prefix, Tail(statuses))

\* checkK8s: one issue per category whose count is positive
CountIssue_mut(n, text) == IF n > 1 THEN <<Itoa(n) \o <<text>>>> ELSE <<>>

CountIssue(n, text) == IF n > 0 THEN <<Itoa(n) \o <<text>>>> ELSE <<>>

HealthIssues(health) ==
    LET nodeIssues == Len(health.Nodes.NotReady) + Len(health.Nodes.Conditions)
        podIssues  == Len(health.Pods.CrashLoopBackOff) + Len(health.Pods.ImagePullBackOff)
                      + Len(health.Pods.Pending) + Len(health.Pods.Failed)
    IN     CountIssue(nodeIssues, " node issues")
        \o CountIssue(podIssues, " pod issues")
        \o CountIssue(Len(health.Deployments.Unavailable), " deployment issues")
        \o CountIssue(Len(health.PVCs.Pending), " PVC issues")
        \o CountIssue(Len(health.Services.NoIP), " LoadBalancer issues")
        \o CountIssue(Len(health.Certs.Expired), " expired certificates")
        \o CountIssue(Len(health.Certs.Expiring), " certificates expiring soon")

\* a prober is between two calls: nothing left to append, no append in progress
Drained(p) == todo[p] = <<>> /\ local[p] = None

\* `if err != nil { ...; return }` after CheckHealth
HealthFailed_mut(out) == FALSE

HealthFailed(out) == out.err # NoErr


(***************************************************************************)
(* The command layer: cmd.runChecks, runWatchMode, runCheckOnce.           *)
(***************************************************************************)
\* config.ApplyEnvironment: a set environment variable overrides the file
ApplyEnvironment(fileCfg, env) ==
    [Token    |-> IF env.IONOS_TOKEN # "" THEN env.IONOS_TOKEN ELSE fileCfg.Token,
     Username |-> IF env.IONOS_USERNAME # "" THEN env.IONOS_USERNAME ELSE fileCfg.Username,
     Password |-> IF env.IONOS_PASSWORD # "" THEN env.IONOS_PASSWORD ELSE fileCfg.Password,
     APIURL   |-> IF env.IONOS_API_URL # "" THEN env.IONOS_API_URL ELSE fileCfg.APIURL]

\* runChecks' os.Setenv calls: a non-empty config value fills a variable
\* the environment leaves unset
SetenvFromConfig(cfg, env) ==
    [IONOS_TOKEN    |-> IF cfg.Token # "" /\ env.IONOS_TOKEN = ""
                        THEN cfg.Token ELSE env.IONOS_TOKEN,
     IONOS_USERNAME |-> IF cfg.Username # "" /\ env.IONOS_USERNAME = ""
                        THEN cfg.Username ELSE env.IONOS_USERNAME,
     IONOS_PASSWORD |-> IF cfg.Password # "" /\ env.IONOS_PASSWORD = ""
                        THEN cfg.Password ELSE env.IONOS_PASSWORD,
     IONOS_API_URL  |-> IF cfg.APIURL # "" /\ env.IONOS_API_URL = ""
                        THEN cfg.APIURL ELSE env.IONOS_API_URL]

MergeEnv(fileCfg, env) == SetenvFromConfig(ApplyEnvironment(fileCfg, env), env)

\* runChecks: load the config file, merge it into the environment, then
\* enter watch mode or the single check
RunChecksCmd(fileCfg, loadErr) ==
    /\ mainpc = "runChecks"
    /\ IF loadErr # NoErr
       THEN /\ cmdErr' = <<"error loading config: ">> \o loadErr
            /\ mainpc' = "cmdReturned"
            /\ osEnv' = osEnv
       ELSE /\ osEnv' = MergeEnv(fileCfg, osEnv)
            /\ cmdErr' = cmdErr
            /\ mainpc' = IF watch > 0 THEN "watchLoop" ELSE "runCheckOnce"
    /\ UNCHANGED <<watch, outputFmt, first, cycle, sleeps, rendered, exitCode>>
    /\ UNCHANGED aggVars
    /\ UNCHANGED feedVars
    /\ UNCHANGED callVars

\* runWatchMode: the head of one loop iteration, up to the call of runCheckOnce
WatchIterate ==
    /\ mainpc = "watchLoop"
    /\ ~crashed
    /\ cycle < MaxCycles
    /\ rendered' = IF outputFmt = "text"
                   THEN IF first THEN <<"Starting watch mode...">>
                        ELSE <<"clear screen", "Last check">>
                   ELSE <<>>
    /\ mainpc' = "runCheckOnce"
    /\ UNCHANGED <<watch, outputFmt, osEnv, first, cycle, sleeps, exitCode, cmdErr>>
    /\ UNCHANGED aggVars
    /\ UNCHANGED feedVars
    /\ UNCHANGED callVars

\* RunChecks, up to wg.Wait(): a fresh Report, wg.Add(3), three goroutines
RunChecksStart ==
    /\ mainpc = "runCheckOnce"
    /\ ~crashed
    /\ report' = NewReport
    /\ issues' = <<>>
    /\ wg' = WgAddCount
    /\ pc' = [p \in Probers |->
                CASE p = "feed"  -> "feedCheckStatus"
                  [] p = "cloud" -> "newIONOSClient"
                  [] p = "k8s"   -> "newK8sChecker"]
    /\ todo' = [p \in Probers |-> <<>>]
    /\ local' = [p \in Probers |-> None]
    /\ appended' = [p \in Probers |-> <<>>]
    /\ outcome' = [p \in Probers |-> "running"]
    /\ ret' = None
    /\ cycle' = cycle + 1
    /\ mainpc' = "wgWait"
    /\ UNCHANGED <<watch, outputFmt, osEnv, first, sleeps, rendered, exitCode, cmdErr, crashed>>
    /\ UNCHANGED feedVars
    /\ UNCHANGED callVars

\* wg.Wait() returns
WgWait ==
    /\ mainpc = "wgWait"
    /\ ~crashed
    /\ wg = 0
    /\ mainpc' = "finalize"
    /\ UNCHANGED <<watch, outputFmt, osEnv, first, cycle, sleeps, rendered, exitCode, cmdErr>>
    /\ UNCHANGED aggVars
    /\ UNCHANGED feedVars
    /\ UNCHANGED callVars

\* RunChecks after wg.Wait(): Issues, Status, return
Finalize ==
    /\ mainpc = "finalize"
    /\ ~crashed
    /\ report' = [report EXCEPT !.Issues = issues, !.Status = SeverityOf(Len(issues))]
    /\ ret' = Some([report |-> Some(report'), err |-> NoErr])
    /\ mainpc' = "render"
    /\ UNCHANGED <<watch, outputFmt, osEnv, first, cycle, sleeps, rendered, exitCode, cmdErr>>
    /\ UNCHANGED <<issues, wg, pc, todo, local, appended, outcome, crashed>>
    /\ UNCHANGED feedVars
    /\ UNCHANGED callVars

\* the exit code runCheckOnce's switch chooses; None when it calls no os.Exit
ExitFor_mut(status) ==
    CASE status = "CRITICAL" -> Some(1)
      [] status = "WARNING"  -> Some(1)
      [] OTHER               -> None

ExitFor(status) ==
    CASE status = "CRITICAL" -> Some(2)
      [] status = "WARNING"  -> Some(1)
      [] OTHER               -> None

\* `if !watchMode` around both os.Exit calls of runCheckOnce
ExitsProcess_mut(watchMode) == TRUE

ExitsProcess(watchMode) == ~watchMode

\* runCheckOnce after RunChecks returned: the error path, or the rendering
Render ==
    /\ mainpc = "render"
    /\ ~crashed
    /\ LET r == ret[1]
       IN  IF r.err # NoErr
           THEN /\ rendered' = rendered
                /\ IF ExitsProcess(watch > 0)
                   THEN exitCode' = Some(1) /\ mainpc' = "exited"
                   ELSE exitCode' = exitCode /\ mainpc' = "checked"
                /\ crashed' = crashed
           ELSE IF r.report = None
           THEN /\ crashed' = TRUE
                /\ UNCHANGED <<rendered, exitCode, mainpc>>
           ELSE /\ rendered' = Append(rendered, IF outputFmt = "json" THEN "json" ELSE "text")
                /\ mainpc' = "exitSwitch"
                /\ UNCHANGED <<exitCode, crashed>>
    /\ UNCHANGED <<watch, outputFmt, osEnv, first, cycle, sleeps, cmdErr>>
    /\ UNCHANGED <<report, issues, wg, pc, todo, local, appended, outcome, ret>>
    /\ UNCHANGED feedVars
    /\ UNCHANGED callVars

\* runCheckOnce: the switch on report.Status
ExitSwitch ==
    /\ mainpc = "exitSwitch"
    /\ ~crashed
    /\ LET code == ExitFor(ret[1].report[1].Status)
       IN  IF ExitsProcess(watch > 0) /\ code # None
           THEN exitCode' = code /\ mainpc' = "exited"
           ELSE exitCode' = exitCode /\ mainpc' = "checked"
    /\ UNCHANGED <<watch, outputFmt, osEnv, first, cycle, sleeps, rendered, cmdErr>>
    /\ UNCHANGED aggVars
    /\ UNCHANGED feedVars
    /\ UNCHANGED callVars

\* runCheckOnce returned: runWatchMode sleeps, runChecks returns nil
AfterCheck ==
    /\ mainpc = "checked"
    /\ ~crashed
    /\ IF watch > 0
       THEN first' = FALSE /\ mainpc' = "sleep"
       ELSE first' = first /\ mainpc' = "cmdReturned"
    /\ UNCHANGED <<watch, outputFmt, osEnv, cycle, sleeps, rendered, exitCode, cmdErr>>
    /\ UNCHANGED aggVars
    /\ UNCHANGED feedVars
    /\ UNCHANGED callVars

\* time.Sleep(watch seconds) elapses
Sleep ==
    /\ mainpc = "sleep"
    /\ ~crashed
    /\ sleeps' = sleeps + 1
    /\ mainpc' = "watchLoop"
    /\ UNCHANGED <<watch, outputFmt, osEnv, first, cycle, rendered, exitCode, cmdErr>>
    /\ UNCHANGED aggVars
    /\ UNCHANGED feedVars
    /\ UNCHANGED callVars

\* main after rootCmd.Execute() returned: the process ends
MainExit ==
    /\ mainpc = "cmdReturned"
    /\ ~crashed
    /\ exitCode' = Some(IF cmdErr = NoErr THEN 0 ELSE 1)
    /\ mainpc' = "exited"
    /\ UNCHANGED <<watch, outputFmt, osEnv, first, cycle, sleeps, rendered, cmdErr>>
    /\ UNCHANGED aggVars
    /\ UNCHANGED feedVars
    /\ UNCHANGED callVars


(***************************************************************************)
(* The prober goroutines.  An append to the shared issues slice is not     *)
(* guarded by any lock: it loads the slice, then stores the extended       *)
(* slice, and another goroutine can run between the two.                   *)
(***************************************************************************)
\* append, first half: load the slice issues points to
AppendLoad(p) ==
    /\ ~crashed
    /\ pc[p] \notin {"idle", "done"}
    /\ todo[p] # <<>>
    /\ local[p] = None
    /\ local' = [local EXCEPT ![p] = Some(issues)]
    /\ UNCHANGED <<report, issues, wg, pc, todo, appended, outcome, ret, crashed>>
    /\ UNCHANGED cmdVars
    /\ UNCHANGED feedVars
    /\ UNCHANGED callVars

\* append, second half: store the loaded slice extended by the issue
AppendStore(p) ==
    /\ ~crashed
    /\ local[p] # None
    /\ issues' = Append(local[p][1], Head(todo[p]))
    /\ appended' = [appended EXCEPT ![p] = Append(@, Head(todo[p]))]
    /\ todo' = [todo EXCEPT ![p] = Tail(@)]
    /\ local' = [local EXCEPT ![p] = None]
    /\ UNCHANGED <<report, wg, pc, outcome, ret, crashed>>
    /\ UNCHANGED cmdVars
    /\ UNCHANGED feedVars
    /\ UNCHANGED callVars

\* the deferred wg.Done() of a prober that reached its return
WgDone(p) ==
    /\ ~crashed
    /\ pc[p] = "return"
    /\ Drained(p)
    /\ IF wg = 0
       THEN crashed' = TRUE /\ wg' = wg
       ELSE crashed' = crashed /\ wg' = wg - 1
    /\ pc' = [pc EXCEPT ![p] = "done"]
    /\ outcome' = [outcome EXCEPT ![p] = IF @ = "running" THEN "ok" ELSE @]
    /\ UNCHANGED <<report, issues, todo, local, appended, ret>>
    /\ UNCHANGED cmdVars
    /\ UNCHANGED feedVars
    /\ UNCHANGED callVars

\* checkStatusPage: feedCheckStatus() and the branch on its result
FeedCheckStatus(fetch, now) ==
    /\ ~crashed
    /\ pc["feed"] = "feedCheckStatus"
    /\ LET r == CheckStatus(fetch, now)
       IN  IF r.err # NoErr
           THEN /\ todo' = [todo EXCEPT !["feed"] = << <<"Status page: ">> \o r.err >>]
                /\ outcome' = [outcome EXCEPT !["feed"] = "failed"]
                /\ UNCHANGED <<report, crashed>>
           ELSE IF r.result = None
           THEN /\ crashed' = TRUE
                /\ UNCHANGED <<report, todo, outcome>>
           ELSE /\ report' = [report EXCEPT !.StatusPage = r.result]
                /\ todo' = [todo EXCEPT !["feed"] = StatusPageIssues(r.result[1])]
                /\ UNCHANGED <<outcome, crashed>>
    /\ pc' = [pc EXCEPT !["feed"] = "return"]
    /\ UNCHANGED <<issues, wg, local, appended, ret>>
    /\ UNCHANGED cmdVars
    /\ UNCHANGED feedVars
    /\ UNCHANGED callVars

\* where checkIONOS goes on `if err != nil { return }`: the deferred
\* wg.Done() runs on this path too
AfterClientError_mut == "done"

AfterClientError == "return"

\* checkIONOS: newIONOSClient() and the early return
CloudNewClient ==
    /\ ~crashed
    /\ pc["cloud"] = "newIONOSClient"
    /\ LET r == NewClientFromEnv(osEnv)
       IN  IF r.err # NoErr
           THEN /\ pc' = [pc EXCEPT !["cloud"] = AfterClientError]
                /\ outcome' = [outcome EXCEPT !["cloud"] = "failed"]
           ELSE /\ pc' = [pc EXCEPT !["cloud"] = "CheckConnectivity"]
                /\ outcome' = outcome
    /\ UNCHANGED <<report, issues, wg, todo, local, appended, ret, crashed>>
    /\ UNCHANGED cmdVars
    /\ UNCHANGED feedVars
    /\ UNCHANGED callVars

\* checkIONOS: the connectivity check
CloudConnectivity(net) ==
    /\ ~crashed
    /\ pc["cloud"] = "CheckConnectivity"
    /\ LET connResult == CheckConnectivity(net)
       IN  /\ report' = [report EXCEPT !.APICheck = Some(connResult)]
           /\ todo' = [todo EXCEPT !["cloud"] = CheckIssue(connResult, "IONOS API unreachable")]
    /\ pc' = [pc EXCEPT !["cloud"] = "CheckAuthentication"]
    /\ UNCHANGED <<issues, wg, local, appended, outcome, ret, crashed>>
    /\ UNCHANGED cmdVars
    /\ UNCHANGED feedVars
    /\ UNCHANGED callVars

\* checkIONOS: the authentication check
CloudAuthentication(resp) ==
    /\ ~crashed
    /\ pc["cloud"] = "CheckAuthentication"
    /\ Drained("cloud")
    /\ LET authResult == CheckAuthentication(resp)
       IN  /\ report' = [report EXCEPT !.AuthCheck = Some(authResult)]
           /\ todo' = [todo EXCEPT !["cloud"] = CheckIssue(authResult, "IONOS authentication failed")]
    /\ pc' = [pc EXCEPT !["cloud"] = "CheckDatacenters"]
    /\ UNCHANGED <<issues, wg, local, appended, outcome, ret, crashed>>
    /\ UNCHANGED cmdVars
    /\ UNCHANGED feedVars
    /\ UNCHANGED callVars

\* checkIONOS: the datacenter walk; walk is what client.CheckDatacenters()
\* returns, [statuses, err]
CloudDatacenters(walk) ==
    /\ ~crashed
    /\ pc["cloud"] = "CheckDatacenters"
    /\ Drained("cloud")
    /\ IF walk.err # NoErr
       THEN /\ todo' = [todo EXCEPT !["cloud"] = << <<"Datacenters: ">> \o walk.err >>]
            /\ report' = report
       ELSE /\ report' = [report EXCEPT !.Datacenters = Some(walk.statuses)]
            /\ todo' = [todo EXCEPT !["cloud"] = EntityIssues("DC ", walk.statuses)]
    /\ pc' = [pc EXCEPT !["cloud"] = "CheckK8sClusters"]
    /\ UNCHANGED <<issues, wg, local, appended, outcome, ret, crashed>>
    /\ UNCHANGED cmdVars
    /\ UNCHANGED feedVars
    /\ UNCHANGED callVars

\* checkIONOS: the managed-cluster walk
CloudClusters(walk) ==
    /\ ~crashed
    /\ pc["cloud"] = "CheckK8sClusters"
    /\ Drained("cloud")
    /\ IF walk.err # NoErr
       THEN /\ todo' = [todo EXCEPT !["cloud"] = << <<"K8s clusters: ">> \o walk.err >>]
            /\ report' = report
       ELSE /\ report' = [report EXCEPT !.Clusters = Some(walk.statuses)]
            /\ todo' = [todo EXCEPT !["cloud"] = EntityIssues("Cluster ", walk.statuses)]
    /\ pc' = [pc EXCEPT !["cloud"] = "return"]
    /\ UNCHANGED <<issues, wg, local, appended, outcome, ret, crashed>>
    /\ UNCHANGED cmdVars
    /\ UNCHANGED feedVars
    /\ UNCHANGED callVars

\* checkK8s: newK8sChecker(kubeconfig) and the early return
K8sNewChecker(err) ==
    /\ ~crashed
    /\ pc["k8s"] = "newK8sChecker"
    /\ IF err # NoErr
       THEN /\ pc' = [pc EXCEPT !["k8s"] = "return"]
            /\ outcome' = [outcome EXCEPT !["k8s"] = "failed"]
       ELSE /\ pc' = [pc EXCEPT !["k8s"] = "CheckHealth"]
            /\ outcome' = outcome
    /\ UNCHANGED <<report, issues, wg, todo, local, appended, ret, crashed>>
    /\ UNCHANGED cmdVars
    /\ UNCHANGED feedVars
    /\ UNCHANGED callVars

\* checkK8s: `report.Health = health`
SetHealth_mut(r, health) == [r EXCEPT !.Health = health, !.Status = "WARNING"]

SetHealth(r, health) == [r EXCEPT !.Health = health]

\* checkK8s: checker.CheckHealth() and what follows; out is [health, err]
K8sCheckHealth(out) ==
    /\ ~crashed
    /\ pc["k8s"] = "CheckHealth"
    /\ IF HealthFailed(out)
       THEN /\ todo' = [todo EXCEPT !["k8s"] = << <<"K8s health: ">> \o out.err >>]
            /\ outcome' = [outcome EXCEPT !["k8s"] = "failed"]
            /\ UNCHANGED <<report, crashed>>
       ELSE IF out.health = None
       THEN /\ crashed' = TRUE
            /\ report' = SetHealth(report, out.health)
            /\ UNCHANGED <<todo, outcome>>
       ELSE /\ report' = SetHealth(report, out.health)
            /\ todo' = [todo EXCEPT !["k8s"] = HealthIssues(out.health[1])]
            /\ UNCHANGED <<outcome, crashed>>
    /\ pc' = [pc EXCEPT !["k8s"] = "return"]
    /\ UNCHANGED <<issues, wg, local, appended, ret>>
    /\ UNCHANGED cmdVars
    /\ UNCHANGED feedVars
    /\ UNCHANGED callVars


(***************************************************************************)
(* What the backends can answer.                                           *)
(***************************************************************************)
FirstK(seq, k) == SubSeq(seq, 1, k)

IncidentTitles == <<"Incident A", "Incident B", "Incident C">>

RecentActive(title) ==
    [Title |-> title, Updated |-> [valid |-> TRUE, t |-> NowHour],
     Content |-> <<"We", "are", "Investigating">>]

\* the status page: unreachable, or a feed with k recent active incidents
Fetches ==
    {[err |-> <<"connection refused">>, entries |-> <<>>]}
    \cup {[err |-> NoErr,
           entries |-> [i \in 1..k |-> RecentActive(IncidentTitles[i])]] : k \in 0..MaxIncidents}

EmptyCfg == [Token |-> "", Username |-> "", Password |-> "", APIURL |-> ""]
BasicCfg == [Token |-> "", Username |-> "file-user", Password |-> "file-pass", APIURL |-> ""]
FileCfgs == {EmptyCfg, BasicCfg}

LoadErrs == {NoErr, <<"failed to parse config file">>}

EmptyEnv == [IONOS_TOKEN |-> "", IONOS_USERNAME |-> "", IONOS_PASSWORD |-> "", IONOS_API_URL |-> ""]
OsEnvs == {EmptyEnv}

NetOutcomes == {"response", "failure"}

\* the API answers consistently during one cycle: once it was unreachable
\* every later request fails too, and once it rejected the credentials the
\* list calls are rejected too
AuthResponses ==
    IF report.APICheck = None THEN {}
    ELSE IF ~report.APICheck[1].OK
    THEN {[err |-> <<"network error">>, StatusCode |-> 0]}
    ELSE {[err |-> NoErr, StatusCode |-> 200], [err |-> NoErr, StatusCode |-> 401]}

DCIssueTexts == << <<"Server srv1 state: BUSY">>, <<"Volume vol1 state: BUSY">>,
                   <<"Failed to get servers: ", "timeout">> >>
ClusterIssueTexts == << <<"Cluster state: DEPLOYING">>, <<"Node pool pool1 state: UPDATING">>,
                        <<"Failed to get node pools: ", "timeout">> >>

\* a walk: the list call failed, or one entity with k issues
Walks(name, texts) ==
    IF report.APICheck = None \/ report.AuthCheck = None THEN {}
    ELSE IF ~report.APICheck[1].OK
    THEN {[statuses |-> None, err |-> <<"network error">>]}
    ELSE IF ~report.AuthCheck[1].OK
    THEN {[statuses |-> None, err |-> <<"API returned status ">> \o Itoa(401)]}
    ELSE {[statuses |-> <<[Name |-> name, Issues |-> FirstK(texts, k)]>>, err |-> NoErr] :
             k \in 0..MaxEntityIssues}

CheckerErrs == {NoErr, <<"failed to load kubeconfig">>}

ItemNames == <<"item-1", "item-2", "item-3">>

Health(notReady, pending) ==
    [Nodes       |-> [NotReady |-> notReady, Conditions |-> <<>>],
     Pods        |-> [CrashLoopBackOff |-> <<>>, ImagePullBackOff |-> <<>>,
                      Pending |-> pending, Failed |-> <<>>],
     Deployments |-> [Unavailable |-> <<>>],
     PVCs        |-> [Pending |-> <<>>],
     Services    |-> [NoIP |-> <<>>],
     Certs       |-> [Expired |-> <<>>, Expiring |-> <<>>]]

\* CheckHealth: a list call failed, or a result with some nodes not ready
HealthOutcomes ==
    {[health |-> None, err |-> <<"failed to check nodes: ", "timeout">>]}
    \cup {[health |-> Some(Health(FirstK(ItemNames, n), <<>>)), err |-> NoErr] :
             n \in 0..MaxItems}

(***************************************************************************)
(* The program: one process run, from cmd.runChecks on.                    *)
(***************************************************************************)
Idle ==
    /\ first = TRUE
    /\ cycle = 0
    /\ sleeps = 0
    /\ rendered = <<>>
    /\ exitCode = None
    /\ cmdErr = NoErr
    /\ report = NewReport
    /\ issues = <<>>
    /\ wg = 0
    /\ pc = [p \in Probers |-> "idle"]
    /\ todo = [p \in Probers |-> <<>>]
    /\ local = [p \in Probers |-> None]
    /\ appended = [p \in Probers |-> <<>>]
    /\ outcome = [p \in Probers |-> "running"]
    /\ ret = None
    /\ crashed = FALSE

Init ==
    /\ mainpc = "runChecks"
    /\ watch \in {0, 30}
    /\ outputFmt \in {"text", "json"}
    /\ osEnv \in OsEnvs
    /\ Idle
    /\ feedIn = None
    /\ feedOut = None
    /\ callIn = None
    /\ callOut = None

Next ==
    \/ \E f \in FileCfgs, e \in LoadErrs : RunChecksCmd(f, e)
    \/ WatchIterate
    \/ RunChecksStart
    \/ WgWait
    \/ Finalize
    \/ Render
    \/ ExitSwitch
    \/ AfterCheck
    \/ Sleep
    \/ MainExit
    \/ \E p \in Probers : AppendLoad(p)
    \/ \E p \in Probers : AppendStore(p)
    \/ \E p \in Probers : WgDone(p)
    \/ \E f \in Fetches : FeedCheckStatus(f, NowHour)
    \/ CloudNewClient
    \/ \E n \in NetOutcomes : CloudConnectivity(n)
    \/ \E r \in AuthResponses : CloudAuthentication(r)
    \/ \E w \in Walks("DC1", DCIssueTexts) : CloudDatacenters(w)
    \/ \E w \in Walks("Cluster1", ClusterIssueTexts) : CloudClusters(w)
    \/ \E e \in CheckerErrs : K8sNewChecker(e)
    \/ \E o \in HealthOutcomes : K8sCheckHealth(o)

Spec == Init /\ [][Next]_vars


(***************************************************************************)
(* analyzeEntries on its own: every feed of at most MaxEntries entries.    *)
(***************************************************************************)
FeedTitles == {"Network latency in FRA", "Earlier outage"}

\* an unparseable timestamp, and parseable ones around the cutoff
FeedUpdated ==
    {[valid |-> FALSE, t |-> 0]}
    \cup {[valid |-> TRUE, t |-> NowHour - CutoffHours + d] : d \in {-1, 0, 1}}

FeedContents ==
    { <<"All", "systems", "operational">>,
      <<"We", "are", "Investigating">>,
      <<"Issue", "resolved">>,
      <<"investigating", "RESOLVED">>,
      <<"Currently", "unresolved">>,
      <<"monitoring", "no customer impact">> }

FeedEntries == [Title : FeedTitles, Updated : FeedUpdated, Content : FeedContents]

RECURSIVE SeqsUpTo(_, _)
SeqsUpTo(S, n) ==
    IF n = 0 THEN {<<>>}
    ELSE LET shorter == SeqsUpTo(S, n - 1)
         IN  shorter \cup {Append(q, x) : q \in {r \in shorter : Len(r) = n - 1}, x \in S}

FeedInit ==
    /\ mainpc = "analyzeEntries"
    /\ watch = 0
    /\ outputFmt = "text"
    /\ osEnv = EmptyEnv
    /\ Idle
    /\ feedIn \in {Some([entries |-> e, now |-> NowHour]) : e \in SeqsUpTo(FeedEntries, MaxEntries)}
    /\ feedOut = None
    /\ callIn = None
    /\ callOut = None

AnalyzeEntries ==
    /\ mainpc = "analyzeEntries"
    /\ feedOut = None
    /\ feedOut' = Some(analyzeEntries(feedIn[1].entries, feedIn[1].now))
    /\ UNCHANGED feedIn
    /\ UNCHANGED cmdVars
    /\ UNCHANGED aggVars
    /\ UNCHANGED callVars

FeedNext == AnalyzeEntries

SpecFeed == FeedInit /\ [][FeedNext]_vars


(***************************************************************************)
(* Properties.                                                             *)
(***************************************************************************)
AllProbersDone == \A p \in Probers : pc[p] = "done"

\* RunChecks has returned in the current cycle
Returned == ret # None

InList(x, list) == \E j \in 1..Len(list) : list[j] = x

Contributions == Len(appended["feed"]) + Len(appended["cloud"]) + Len(appended["k8s"])

\* the report section(s) a prober sets when it does not fail
SectionSet(p) ==
    CASE p = "feed"  -> report.StatusPage # None
      [] p = "cloud" -> report.APICheck # None /\ report.AuthCheck # None
      [] p = "k8s"   -> report.Health # None

SectionAbsent(p) ==
    CASE p = "feed"  -> report.StatusPage = None
      [] p = "cloud" -> /\ report.APICheck = None /\ report.AuthCheck = None
                        /\ report.Datacenters = None /\ report.Clusters = None
      [] p = "k8s"   -> report.Health = None

\* C1: RunChecks assigns Report.Issues and Report.Status and returns only
\* after checkStatusPage, checkIONOS and checkK8s have all finished; while
\* a prober is still running the Report is unfinished and nothing is returned.
C1_ReportAfterJoin ==
    /\ mainpc \in {"finalize", "render", "exitSwitch", "checked"} => AllProbersDone
    /\ Returned => AllProbersDone
    /\ (report.Issues # <<>> \/ report.Status # "OK") => AllProbersDone

C1_Witness ==
    /\ mainpc = "render"
    /\ Returned
    /\ AllProbersDone
    /\ Len(report.Issues) >= 2
    /\ \A p \in Probers : Len(appended[p]) >= 1

\* C2: the appends of the three probers are serialized, so when RunChecks
\* returns every issue a prober appended is in Report.Issues and the length
\* of Report.Issues is the sum of the three probers' contributions.
C2_NoLostAppend ==
    Returned =>
        /\ Len(report.Issues) = Contributions
        /\ \A p \in Probers : \A i \in 1..Len(appended[p]) :
               InList(appended[p][i], report.Issues)

\* C3: the final Status depends on the number of issues only: OK iff there
\* are none, WARNING iff there are 1 to 3, CRITICAL iff there are 4 or more.
C3_SeverityByCount ==
    Returned =>
        LET n == Len(report.Issues)
        IN  /\ ret[1].report = Some(report)
            /\ report.Status = "OK" <=> n = 0
            /\ report.Status = "WARNING" <=> (n >= 1 /\ n <= 3)
            /\ report.Status = "CRITICAL" <=> n >= 4

C3_Witness ==
    /\ Returned
    /\ Len(report.Issues) = 4
    /\ report.Status = "CRITICAL"

\* C4: whatever the other probers' outcomes, a prober that does not itself
\* fail has run to completion when RunChecks returns, has set its own
\* section of the Report, and each of its issues is in the Report.
C4_FailureIsolation ==
    Returned =>
        \A p \in Probers :
            outcome[p] = "ok" =>
                /\ pc[p] = "done"
                /\ SectionSet(p)
                /\ \A i \in 1..Len(appended[p]) : InList(appended[p][i], report.Issues)

\* C5: a prober-level failure (feed fetch error, cloud client not created,
\* cluster checker not created, CheckHealth error) leaves the prober's
\* section of the Report absent and puts exactly one issue of that prober
\* into the Report's issue list.
C5_OneIssuePerFailure ==
    Returned =>
        \A p \in Probers :
            outcome[p] = "failed" =>
                /\ SectionAbsent(p)
                /\ Len(appended[p]) = 1
                /\ InList(appended[p][1], report.Issues)

ExitStatusOf(status) ==
    CASE status = "OK"       -> 0
      [] status = "WARNING"  -> 1
      [] status = "CRITICAL" -> 2

\* C7: in single-shot mode, once a Report was produced the process exit code
\* is 0 for OK, 1 for WARNING and 2 for CRITICAL, and the process exits only
\* after the report was rendered in the chosen format.
C7_ExitCodeAfterRender ==
    (watch = 0 /\ exitCode # None /\ cmdErr = NoErr) =>
        /\ Returned
        /\ rendered = <<outputFmt>>
        /\ exitCode[1] = ExitStatusOf(report.Status)

C7_Witness ==
    /\ watch = 0
    /\ outputFmt = "json"
    /\ rendered = <<"json">>
    /\ report.Status = "CRITICAL"
    /\ exitCode = Some(2)

\* C8: when no cloud credentials can be resolved the three probers are
\* never started: the condition is a precondition failure raised before
\* the concurrent phase.
C8_FatalBeforeFanOut ==
    NewClientFromEnv(osEnv).err # NoErr => \A p \in Probers : pc[p] = "idle"

\* C9: in watch mode a cycle starts only when no prober of the previous
\* cycle is still running and the sleep after the previous cycle has
\* returned, and no Status and no RunChecks error ends the loop: once the
\* loop is entered the process neither exits nor returns.
C9_WatchCyclesSequential ==
    (watch > 0 /\ mainpc # "runChecks" /\ cmdErr = NoErr) =>
        /\ cycle <= sleeps + 1
        /\ mainpc \in {"watchLoop", "runCheckOnce", "sleep"} =>
               \A p \in Probers : pc[p] \in {"idle", "done"}
        /\ mainpc \in {"wgWait", "finalize", "render", "exitSwitch", "checked"} =>
               cycle = sleeps + 1
        /\ exitCode = None
        /\ mainpc \notin {"exited", "cmdReturned"}

C9_Witness ==
    /\ watch > 0
    /\ cycle = 2
    /\ sleeps = 1
    /\ mainpc = "sleep"
    /\ report.Status = "CRITICAL"

\* the number of entries analyzeEntries retains as active incidents
ActiveCount(entries, now) ==
    Cardinality({i \in 1..Len(entries) : IsActive(entries[i], now - CutoffHours)})

\* C10: with n the number of active incidents retained, analyzeEntries
\* returns OK and "No active incidents" for n = 0, WARNING and
\* "1 active incident: <title>" of that entry for n = 1, CRITICAL and
\* "<n> active incidents" for n >= 2, and ActiveIncidents has n entries.
C10_ClassifyByCount ==
    feedOut # None =>
        LET entries == feedIn[1].entries
            n == ActiveCount(entries, feedIn[1].now)
            r == feedOut[1]
        IN  /\ Len(r.ActiveIncidents) = n
            /\ n = 0 => r.Status = StatusOK /\ r.Message = <<"No active incidents">>
            /\ n = 1 => /\ r.Status = StatusWarning
                        /\ \E i \in 1..Len(entries) :
                              /\ IsActive(entries[i], feedIn[1].now - CutoffHours)
                              /\ r.Message = <<"1 active incident: ", entries[i].Title>>
                              /\ r.ActiveIncidents = <<entries[i]>>
            /\ n >= 2 => /\ r.Status = StatusCritical
                         /\ r.Message = Itoa(n) \o <<" active incidents">>

C10_Witness ==
    /\ feedOut # None
    /\ Len(feedIn[1].entries) = 2
    /\ feedOut[1].Status = StatusCritical
    /\ feedOut[1].Message = <<"2", " active incidents">>

\* the claim's two keyword sets, on a lower-cased content
HasResolvedWord(c) ==
    Contains(c, "resolved") \/ Contains(c, "completed") \/ Contains(c, "no customer impact")

HasActiveWord(c) ==
    \/ Contains(c, "investigating") \/ Contains(c, "identified")
    \/ Contains(c, "monitoring") \/ Contains(c, "in progress") \/ Contains(c, "currently")

\* C11: an entry whose lower-cased content contains a resolved keyword is
\* never in ActiveIncidents, also when it contains an active keyword too, and
\* an entry that matches neither keyword set is never in ActiveIncidents.
C11_ResolvedWins ==
    feedOut # None =>
        \A i \in 1..Len(feedIn[1].entries) :
            LET e == feedIn[1].entries[i]
                c == ToLower(e.Content)
            IN  (HasResolvedWord(c) \/ ~HasActiveWord(c)) =>
                    ~InList(e, feedOut[1].ActiveIncidents)

C11_Witness ==
    /\ feedOut # None
    /\ Len(feedIn[1].entries) = 2
    /\ feedIn[1].entries[1].Content = <<"investigating", "RESOLVED">>
    /\ feedIn[1].entries[1].Updated = [valid |-> TRUE, t |-> NowHour - 23]
    /\ feedIn[1].entries[2].Content = <<"We", "are", "Investigating">>
    /\ feedOut[1].ActiveIncidents = <<feedIn[1].entries[2]>>

\* C12 as claimed: an entry updated at or before the cutoff now - 24h, or
\* with a timestamp that does not parse, is never retained.
C12_DroppedAtOrBeforeCutoff ==
    feedOut # None =>
        \A i \in 1..Len(feedIn[1].entries) :
            LET e == feedIn[1].entries[i]
            IN  (~e.Updated.valid \/ e.Updated.t <= feedIn[1].now - 24) =>
                    ~InList(e, feedOut[1].ActiveIncidents)

\* C12 amended: an entry updated strictly before the cutoff now - 24h, or
\* with a timestamp that does not parse, is never retained whatever its
\* content; an entry updated exactly at the cutoff or later is retained when
\* its content has an active and no resolved keyword.
C12_DroppedBeforeCutoff ==
    feedOut # None =>
        \A i \in 1..Len(feedIn[1].entries) :
            LET e == feedIn[1].entries[i]
                c == ToLower(e.Content)
            IN  /\ (~e.Updated.valid \/ e.Updated.t < feedIn[1].now - 24) =>
                        ~InList(e, feedOut[1].ActiveIncidents)
                /\ (/\ e.Updated.valid
                    /\ e.Updated.t >= feedIn[1].now - 24
                    /\ HasActiveWord(c) /\ ~HasResolvedWord(c)) =>
                        InList(e, feedOut[1].ActiveIncidents)

C12_Witness ==
    /\ feedOut # None
    /\ Len(feedIn[1].entries) = 2
    /\ feedIn[1].entries[1].Updated = [valid |-> TRUE, t |-> NowHour - 24]
    /\ feedIn[1].entries[2].Updated = [valid |-> TRUE, t |-> NowHour - 25]
    /\ feedIn[1].entries[1].Content = <<"We", "are", "Investigating">>
    /\ feedIn[1].entries[2].Content = <<"We", "are", "Investigating">>
    /\ feedOut[1].ActiveIncidents = <<feedIn[1].entries[1]>>

(***************************************************************************)
(* Functions called on their own.  callIn holds the receiver, the          *)
(* arguments and what the backend answers; callOut the result.             *)
(***************************************************************************)
UnitInit(at) ==
    /\ mainpc = at
    /\ watch = 0
    /\ outputFmt = "text"
    /\ osEnv = EmptyEnv
    /\ Idle
    /\ feedIn = None
    /\ feedOut = None
    /\ callOut = None

(***************************************************************************)
(* internal/k8s: checkNodes, and the issues checkK8s derives from a        *)
(* HealthResult.  A node is its name, whether its Ready condition is True  *)
(* and which pressure conditions are True (taken in the order Memory,      *)
(* Disk, PID).                                                             *)
(***************************************************************************)
NodeConditions(node) ==
       (IF node.MemoryPressure THEN << <<node.Name, " MemoryPressure">> >> ELSE <<>>)
    \o (IF node.DiskPressure THEN << <<node.Name, " DiskPressure">> >> ELSE <<>>)
    \o (IF node.PIDPressure THEN << <<node.Name, " PIDPressure">> >> ELSE <<>>)

RECURSIVE checkNodes(_)
checkNodes(nodes) ==
    IF nodes = <<>>
    THEN [Total |-> 0, Ready |-> 0, NotReady |-> <<>>, Conditions |-> <<>>]
    ELSE LET node == Head(nodes)
             rest == checkNodes(Tail(nodes))
         IN  [Total      |-> 1 + rest.Total,
              Ready      |-> (IF node.Ready THEN 1 ELSE 0) + rest.Ready,
              NotReady   |-> (IF node.Ready THEN <<>> ELSE <<node.Name>>) \o rest.NotReady,
              Conditions |-> NodeConditions(node) \o rest.Conditions]

NodeKinds ==
    {[Ready |-> r, MemoryPressure |-> m, DiskPressure |-> FALSE, PIDPressure |-> FALSE] :
        r \in BOOLEAN, m \in BOOLEAN}
    \cup {[Ready |-> FALSE, MemoryPressure |-> TRUE, DiskPressure |-> TRUE, PIDPressure |-> TRUE]}

NodeLists ==
    {[i \in 1..Len(q) |->
        [Name |-> ItemNames[i], Ready |-> q[i].Ready, MemoryPressure |-> q[i].MemoryPressure,
         DiskPressure |-> q[i].DiskPressure, PIDPressure |-> q[i].PIDPressure]] :
        q \in SeqsUpTo(NodeKinds, MaxItems)}

ProblemLists == {FirstK(ItemNames, k) : k \in 0..MaxItems}

HealthInputs ==
    [nodes       : NodeLists,
     Pods        : [CrashLoopBackOff : ProblemLists, ImagePullBackOff : ProblemLists,
                    Pending : ProblemLists, Failed : ProblemLists],
     Deployments : [Unavailable : ProblemLists],
     PVCs        : [Pending : ProblemLists],
     Services    : [NoIP : ProblemLists],
     Certs       : [Expired : ProblemLists, Expiring : ProblemLists]]

HealthInit ==
    /\ UnitInit("checkK8s")
    /\ callIn \in {Some(h) : h \in HealthInputs}

\* checkK8s from `report.Health = health` on, for the health of callIn
CheckK8sIssues ==
    /\ mainpc = "checkK8s"
    /\ callOut = None
    /\ LET in == callIn[1]
           health == [Nodes |-> checkNodes(in.nodes), Pods |-> in.Pods,
                      Deployments |-> in.Deployments, PVCs |-> in.PVCs,
                      Services |-> in.Services, Certs |-> in.Certs]
       IN  callOut' = Some([health |-> health, issues |-> HealthIssues(health)])
    /\ UNCHANGED callIn
    /\ UNCHANGED cmdVars
    /\ UNCHANGED aggVars
    /\ UNCHANGED feedVars

HealthNext == CheckK8sIssues

SpecHealth == HealthInit /\ [][HealthNext]_vars

\* the number of true facts among a node's not-ready and pressure conditions
NodeFacts(node) ==
    Cardinality({f \in {"NotReady", "Memory", "Disk", "PID"} :
        \/ f = "NotReady" /\ ~node.Ready
        \/ f = "Memory" /\ node.MemoryPressure
        \/ f = "Disk" /\ node.DiskPressure
        \/ f = "PID" /\ node.PIDPressure})

RECURSIVE SumNodeFacts(_)
SumNodeFacts(nodes) ==
    IF nodes = <<>> THEN 0 ELSE NodeFacts(Head(nodes)) + SumNodeFacts(Tail(nodes))

\* the seven categories of the claim: count and wording
HealthCategories(in) ==
    << <<SumNodeFacts(in.nodes), " node issues">>,
       <<Len(in.Pods.CrashLoopBackOff) + Len(in.Pods.ImagePullBackOff)
           + Len(in.Pods.Pending) + Len(in.Pods.Failed), " pod issues">>,
       <<Len(in.Deployments.Unavailable), " deployment issues">>,
       <<Len(in.PVCs.Pending), " PVC issues">>,
       <<Len(in.Services.NoIP), " LoadBalancer issues">>,
       <<Len(in.Certs.Expired), " expired certificates">>,
       <<Len(in.Certs.Expiring), " certificates expiring soon">> >>

\* C13: for a successful health result the cluster prober adds, for each of
\* the seven categories, exactly one issue "<count><wording>" when the
\* category's count is positive and none when it is zero, and nothing else;
\* node issues count every not-ready node and every pressure condition.
C13_AggregateCounts ==
    callOut # None =>
        LET cats == HealthCategories(callIn[1])
            out  == callOut[1].issues
        IN  /\ \A k \in 1..Len(cats) :
                   LET n == cats[k][1]
                       label == cats[k][2]
                       hits == {j \in 1..Len(out) : out[j][Len(out[j])] = label}
                   IN  /\ Cardinality(hits) = IF n > 0 THEN 1 ELSE 0
                       /\ \A j \in hits : out[j] = Itoa(n) \o <<label>>
            /\ Len(out) = Cardinality({k \in 1..Len(cats) : cats[k][1] > 0})

C13_Witness ==
    /\ callOut # None
    /\ Len(callIn[1].nodes) = 1
    /\ ~callIn[1].nodes[1].Ready
    /\ callIn[1].nodes[1].MemoryPressure
    /\ ~callIn[1].nodes[1].DiskPressure
    /\ Len(callIn[1].Pods.Pending) = 1
    /\ Len(callIn[1].Pods.CrashLoopBackOff) = 1
    /\ InList(<<"2", " node issues">>, callOut[1].issues)
    /\ InList(<<"2", " pod issues">>, callOut[1].issues)

(***************************************************************************)
(* internal/output: checkStatusPage on its own, for whatever the           *)
(* replaceable feedCheckStatus returns (any Status with any incident       *)
(* list, or an error).                                                     *)
(***************************************************************************)
StatusPageTitles == FeedTitles \cup {IncidentTitles[i] : i \in 1..Len(IncidentTitles)}

StatusResults ==
    {[Status |-> st, ActiveIncidents |-> [i \in 1..Len(q) |-> [Title |-> q[i]]],
      Message |-> <<"message">>] :
        st \in {StatusOK, StatusWarning, StatusCritical},
        q \in SeqsUpTo(StatusPageTitles, MaxEntries)}

StatusPageInit ==
    /\ UnitInit("checkStatusPage")
    /\ callIn \in {Some([result |-> Some(r), err |-> NoErr]) : r \in StatusResults}
                  \cup {Some([result |-> None, err |-> <<"error fetching status page: ", "timeout">>])}

\* checkStatusPage run alone: its Report section and the issues it appends
CheckStatusPage ==
    /\ mainpc = "checkStatusPage"
    /\ callOut = None
    /\ LET r == callIn[1]
       IN  callOut' = Some(IF r.err # NoErr
                           THEN [StatusPage |-> None,
                                 issues |-> << <<"Status page: ">> \o r.err >>]
                           ELSE [StatusPage |-> r.result,
                                 issues |-> StatusPageIssues(r.result[1])])
    /\ UNCHANGED callIn
    /\ UNCHANGED cmdVars
    /\ UNCHANGED aggVars
    /\ UNCHANGED feedVars

StatusPageNext == CheckStatusPage

SpecStatusPage == StatusPageInit /\ [][StatusPageNext]_vars

\* C14: for a fetched status result, a non-OK status gives exactly one issue
\* "Status page: <title>" per active incident, in order, or the single
\* issue "Status page: <status>" when there is no incident; an OK status
\* gives no issue.
C14_StatusPageIssues ==
    (callOut # None /\ callIn[1].err = NoErr) =>
        LET r   == callIn[1].result[1]
            n   == Len(r.ActiveIncidents)
            out == callOut[1].issues
        IN  /\ callOut[1].StatusPage = Some(r)
            /\ r.Status = "OK" => out = <<>>
            /\ (r.Status # "OK" /\ n > 0) =>
                   /\ Len(out) = n
                   /\ \A i \in 1..n : out[i] = <<"Status page: ", r.ActiveIncidents[i].Title>>
            /\ (r.Status # "OK" /\ n = 0) => out = << <<"Status page: ", r.Status>> >>

C14_Witness ==
    /\ callOut # None
    /\ callIn[1].err = NoErr
    /\ callIn[1].result[1].Status = "CRITICAL"
    /\ callIn[1].result[1].ActiveIncidents = <<>>
    /\ callOut[1].issues = << <<"Status page: ", "CRITICAL">> >>

\* how often x occurs in list
Occurrences(x, list) == Cardinality({j \in 1..Len(list) : list[j] = x})

\* C15: when the cloud client exists and checkIONOS has finished, both
\* CheckResults are in the Report, and the prober has appended "IONOS API
\* unreachable" exactly once if the connectivity check failed and never
\* otherwise, and "IONOS authentication failed" exactly once if the
\* authentication check failed and never otherwise.
C15_FixedTextIssues ==
    (pc["cloud"] = "done" /\ NewClientFromEnv(osEnv).err = NoErr) =>
        /\ report.APICheck # None
        /\ report.AuthCheck # None
        /\ Occurrences(<<"IONOS API unreachable">>, appended["cloud"])
               = IF report.APICheck[1].OK THEN 0 ELSE 1
        /\ Occurrences(<<"IONOS authentication failed">>, appended["cloud"])
               = IF report.AuthCheck[1].OK THEN 0 ELSE 1

C15_Witness ==
    /\ pc["cloud"] = "done"
    /\ report.APICheck # None /\ report.APICheck[1].OK
    /\ report.AuthCheck # None /\ ~report.AuthCheck[1].OK
    /\ Occurrences(<<"IONOS authentication failed">>, appended["cloud"]) = 1
    /\ Occurrences(<<"IONOS API unreachable">>, appended["cloud"]) = 0

\* the issues "<prefix><name>: <issue>" of the entities of a Report section
WalkIssues(prefix, section) ==
    IF section = None THEN <<>> ELSE EntityIssues(prefix, section[1])

\* C16: when RunChecks returns, every per-entity issue of the datacenter
\* walk and of the managed-cluster walk is in Report.Issues exactly once as
\* "DC <name>: <issue>" or "Cluster <name>: <issue>", and the number of
\* such issues the cloud prober appended is the number of per-entity issues.
C16_EntityIssuesInReport ==
    Returned =>
        LET walk == WalkIssues("DC ", report.Datacenters)
                    \o WalkIssues("Cluster ", report.Clusters)
        IN  /\ \A i \in 1..Len(walk) : Occurrences(walk[i], report.Issues) = 1
            /\ Cardinality({j \in 1..Len(appended["cloud"]) :
                   appended["cloud"][j][1] \in {"DC ", "Cluster "}}) = Len(walk)

(***************************************************************************)
(* internal/ionos: CheckDatacenters and CheckK8sClusters.  The API is what *)
(* the list call answers, [err, items], every item with the answers of     *)
(* its child calls (servers and volumes, or node pools), each [err, items]. *)
(***************************************************************************)
ServerIsIssue_mut(state) == state = "ERROR"

ServerIsIssue(state) == state = "BUSY" \/ state = "ERROR"

VolumeIsIssue(state) == state # "AVAILABLE"

RECURSIVE ServerStateIssues(_)
ServerStateIssues(servers) ==
    IF servers = <<>> THEN <<>>
    ELSE (IF ServerIsIssue(Head(servers).State)
          THEN << <<"Server ", Head(servers).Name, " state: ", Head(servers).State>> >>
          ELSE <<>>)
         \o ServerStateIssues(Tail(servers))

RECURSIVE VolumeStateIssues(_)
VolumeStateIssues(volumes) ==
    IF volumes = <<>> THEN <<>>
    ELSE (IF VolumeIsIssue(Head(volumes).State)
          THEN << <<"Volume ", Head(volumes).Name, " state: ", Head(volumes).State>> >>
          ELSE <<>>)
         \o VolumeStateIssues(Tail(volumes))

ServerIssues(resp) ==
    IF resp.err # NoErr THEN << <<"Failed to get servers: ">> \o resp.err >>
    ELSE ServerStateIssues(resp.items)

VolumeIssues(resp) ==
    IF resp.err # NoErr THEN << <<"Failed to get volumes: ">> \o resp.err >>
    ELSE VolumeStateIssues(resp.items)

\* the loop body of CheckDatacenters: the Issues of one datacenter
DatacenterIssues_mut(dc) ==
    IF dc.servers.err # NoErr THEN ServerIssues(dc.servers)
    ELSE ServerIssues(dc.servers) \o VolumeIssues(dc.volumes)

DatacenterIssues(dc) == ServerIssues(dc.servers) \o VolumeIssues(dc.volumes)

CheckDatacenters(api) ==
    IF api.err # NoErr THEN [statuses |-> None, err |-> api.err]
    ELSE [statuses |-> [d \in 1..Len(api.items) |->
                           [Name    |-> api.items[d].Name,
                            Servers |-> api.items[d].servers.items,
                            Volumes |-> api.items[d].volumes.items,
                            Issues  |-> DatacenterIssues(api.items[d])]],
          err |-> NoErr]

RECURSIVE NodePoolStateIssues(_)
NodePoolStateIssues(pools) ==
    IF pools = <<>> THEN <<>>
    ELSE (IF Head(pools).State # "ACTIVE"
          THEN << <<"Node pool ", Head(pools).Name, " state: ", Head(pools).State>> >>
          ELSE <<>>)
         \o NodePoolStateIssues(Tail(pools))

\* the loop body of CheckK8sClusters: the Issues of one managed cluster
ClusterIssues(cluster) ==
       (IF cluster.State # "ACTIVE" THEN << <<"Cluster state: ", cluster.State>> >> ELSE <<>>)
    \o (IF cluster.pools.err # NoErr
        THEN << <<"Failed to get node pools: ">> \o cluster.pools.err >>
        ELSE NodePoolStateIssues(cluster.pools.items))

CheckK8sClusters(api) ==
    IF api.err # NoErr THEN [statuses |-> None, err |-> api.err]
    ELSE [statuses |-> [d \in 1..Len(api.items) |->
                           [Name      |-> api.items[d].Name,
                            NodePools |-> api.items[d].pools.items,
                            Issues    |-> ClusterIssues(api.items[d])]],
          err |-> NoErr]

\* child collections: the call failed, or up to MaxItems named items
Named(names, states) ==
    [i \in 1..Len(states) |-> [Name |-> names[i], State |-> states[i]]]

ChildAnswers(names, states) ==
    {[err |-> <<"API returned status ", "500">>, items |-> <<>>]}
    \cup {[err |-> NoErr, items |-> Named(names, q)] : q \in SeqsUpTo(states, MaxItems)}

ServerNames == <<"srv1", "srv2", "srv3", "srv4">>
VolumeNames == <<"vol1", "vol2", "vol3", "vol4">>
NodePoolNames == <<"pool1", "pool2", "pool3", "pool4">>
DatacenterNames == <<"DC1", "DC2", "DC3", "DC4">>
ClusterNames == <<"Cluster1", "Cluster2", "Cluster3", "Cluster4">>

\* the states of the servers / volumes of a datacenter: the call failed, or
\* the first k states of one of these state lists, k up to MaxItems
ServerStateLists ==
    {<<"BUSY", "AVAILABLE", "ERROR">>, <<"AVAILABLE", "ERROR", "BUSY">>,
     <<"ERROR", "BUSY", "AVAILABLE">>}

VolumeStateLists == {<<"BUSY", "AVAILABLE", "BUSY">>, <<"AVAILABLE", "BUSY", "AVAILABLE">>}

PrefixAnswers(names, stateLists) ==
    {[err |-> <<"API returned status ", "500">>, items |-> <<>>]}
    \cup {[err |-> NoErr, items |-> Named(names, FirstK(l, k))] :
             l \in stateLists, k \in 0..MaxItems}

DatacenterKinds ==
    [servers : PrefixAnswers(ServerNames, ServerStateLists),
     volumes : PrefixAnswers(VolumeNames, VolumeStateLists)]

ClusterKinds ==
    [State : {"ACTIVE", "DEPLOYING"}, pools : ChildAnswers(NodePoolNames, {"ACTIVE", "UPDATING"})]

ListFailure == [err |-> <<"API returned status ", "503">>, items |-> <<>>]

DatacenterAnswers ==
    {ListFailure}
    \cup {[err |-> NoErr,
           items |-> [d \in 1..Len(q) |->
                         [Name |-> DatacenterNames[d], servers |-> q[d].servers,
                          volumes |-> q[d].volumes]]] :
             q \in SeqsUpTo(DatacenterKinds, MaxEntities)}

ClusterAnswers ==
    {ListFailure}
    \cup {[err |-> NoErr,
           items |-> [d \in 1..Len(q) |->
                         [Name |-> ClusterNames[d], State |-> q[d].State,
                          pools |-> q[d].pools]]] :
             q \in SeqsUpTo(ClusterKinds, MaxEntities)}

WalkInit ==
    /\ UnitInit("walk")
    /\ callIn \in {Some([walk |-> "datacenters", api |-> a]) : a \in DatacenterAnswers}
                  \cup {Some([walk |-> "clusters", api |-> a]) : a \in ClusterAnswers}

WalkDatacenters ==
    /\ mainpc = "walk"
    /\ callOut = None
    /\ callIn[1].walk = "datacenters"
    /\ callOut' = Some(CheckDatacenters(callIn[1].api))
    /\ UNCHANGED callIn
    /\ UNCHANGED cmdVars
    /\ UNCHANGED aggVars
    /\ UNCHANGED feedVars

WalkClusters ==
    /\ mainpc = "walk"
    /\ callOut = None
    /\ callIn[1].walk = "clusters"
    /\ callOut' = Some(CheckK8sClusters(callIn[1].api))
    /\ UNCHANGED callIn
    /\ UNCHANGED cmdVars
    /\ UNCHANGED aggVars
    /\ UNCHANGED feedVars

WalkNext == WalkDatacenters \/ WalkClusters

SpecWalk == WalkInit /\ [][WalkNext]_vars

\* the issues of a list whose first part is `word`
StartingWith(word, list) == {j \in 1..Len(list) : list[j][1] = word}

\* the items of a child answer whose state is in / is not in a set
InStates(items, states) == {j \in 1..Len(items) : items[j].State \in states}

\* C17: CheckDatacenters returns one status per listed datacenter, and in
\* its Issues every server in state BUSY or ERROR has exactly one entry
\* "Server <name> state: <state>", every volume not in state AVAILABLE has
\* exactly one entry "Volume <name> state: <state>", and there is no other
\* "Server ..." or "Volume ..." entry.
C17_DatacenterIssues ==
    (callOut # None /\ callIn[1].walk = "datacenters" /\ callIn[1].api.err = NoErr) =>
        LET items == callIn[1].api.items
            sts   == callOut[1].statuses
        IN  /\ Len(sts) = Len(items)
            /\ \A d \in 1..Len(items) :
                   LET srv == items[d].servers.items
                       vol == items[d].volumes.items
                       iss == sts[d].Issues
                   IN  /\ sts[d].Name = items[d].Name
                       /\ \A j \in 1..Len(srv) :
                              Occurrences(<<"Server ", srv[j].Name, " state: ", srv[j].State>>, iss)
                                  = IF srv[j].State \in {"BUSY", "ERROR"} THEN 1 ELSE 0
                       /\ \A j \in 1..Len(vol) :
                              Occurrences(<<"Volume ", vol[j].Name, " state: ", vol[j].State>>, iss)
                                  = IF vol[j].State = "AVAILABLE" THEN 0 ELSE 1
                       /\ Cardinality(StartingWith("Server ", iss))
                              = Cardinality(InStates(srv, {"BUSY", "ERROR"}))
                       /\ Cardinality(StartingWith("Volume ", iss))
                              = Cardinality(InStates(vol, {"BUSY"}))

C17_Witness ==
    /\ callOut # None
    /\ callIn[1].walk = "datacenters"
    /\ callIn[1].api.err = NoErr
    /\ Len(callIn[1].api.items) = 1
    /\ callOut[1].statuses[1].Issues =
           << <<"Server ", "srv1", " state: ", "BUSY">>,
              <<"Volume ", "vol1", " state: ", "BUSY">> >>

\* C18: a walk returns an error, and no statuses, only when its list call
\* failed.  Otherwise it returns a status for every listed entity, and a
\* failed child call (servers, volumes, node pools) puts exactly one
\* "Failed to get ..." entry on that entity while the entity's other child
\* collection and every other entity are reported as if it had not failed.
C18_ChildFailureNotFatal ==
    callOut # None =>
        LET api == callIn[1].api
            sts == callOut[1].statuses
        IN  /\ callOut[1].err # NoErr <=> api.err # NoErr
            /\ api.err # NoErr => sts = None
            /\ api.err = NoErr =>
                   /\ Len(sts) = Len(api.items)
                   /\ \A d \in 1..Len(api.items) :
                          LET e == api.items[d]
                              iss == sts[d].Issues
                          IN  IF callIn[1].walk = "datacenters"
                              THEN /\ Cardinality(StartingWith("Failed to get servers: ", iss))
                                          = IF e.servers.err # NoErr THEN 1 ELSE 0
                                   /\ Cardinality(StartingWith("Failed to get volumes: ", iss))
                                          = IF e.volumes.err # NoErr THEN 1 ELSE 0
                                   /\ e.servers.err = NoErr =>
                                          Cardinality(StartingWith("Server ", iss))
                                              = Cardinality(InStates(e.servers.items, {"BUSY", "ERROR"}))
                                   /\ e.volumes.err = NoErr =>
                                          Cardinality(StartingWith("Volume ", iss))
                                              = Cardinality(InStates(e.volumes.items, {"BUSY"}))
                              ELSE /\ Cardinality(StartingWith("Failed to get node pools: ", iss))
                                          = IF e.pools.err # NoErr THEN 1 ELSE 0
                                   /\ Cardinality(StartingWith("Cluster state: ", iss))
                                          = IF e.State = "ACTIVE" THEN 0 ELSE 1
                                   /\ e.pools.err = NoErr =>
                                          Cardinality(StartingWith("Node pool ", iss))
                                              = Cardinality(InStates(e.pools.items, {"UPDATING"}))

C18_Witness ==
    /\ callOut # None
    /\ callIn[1].walk = "datacenters"
    /\ callOut[1].err = NoErr
    /\ Len(callOut[1].statuses) = 2
    /\ callOut[1].statuses[1].Issues =
           << <<"Failed to get servers: ", "API returned status ", "500">>,
              <<"Volume ", "vol1", " state: ", "BUSY">> >>
    /\ callOut[1].statuses[2].Issues =
           << <<"Server ", "srv1", " state: ", "ERROR">> >>

(***************************************************************************)
(* internal/ionos: the managed databases.  An engine's answer is what the  *)
(* GET of its list URL produces: err # NoErr when there was no response,   *)
(* else the status code, whether the body decodes, and the items in it.    *)
(***************************************************************************)
\* makeDBaaSRequest followed by `return response.Items, nil` of the List call
makeDBaaSRequest_mut(answer) ==
    IF answer.err # NoErr THEN [items |-> <<>>, err |-> answer.err]
    ELSE IF answer.StatusCode # 200
    THEN [items |-> <<>>, err |-> <<"API returned status ">> \o Itoa(answer.StatusCode)]
    ELSE IF ~answer.decodes THEN [items |-> <<>>, err |-> <<"invalid character">>]
    ELSE [items |-> answer.items, err |-> NoErr]

makeDBaaSRequest(answer) ==
    IF answer.err # NoErr THEN [items |-> <<>>, err |-> answer.err]
    ELSE IF answer.StatusCode = 404 THEN [items |-> <<>>, err |-> NoErr]
    ELSE IF answer.StatusCode # 200
    THEN [items |-> <<>>, err |-> <<"API returned status ">> \o Itoa(answer.StatusCode)]
    ELSE IF ~answer.decodes THEN [items |-> <<>>, err |-> <<"invalid character">>]
    ELSE [items |-> answer.items, err |-> NoErr]

Engines == <<"PostgreSQL", "MongoDB", "MariaDB", "InMemoryDB">>

\* the wording of CheckDBaaS for a failed list call and for an item's state
EngineListLabel(engine) ==
    CASE engine = "PostgreSQL" -> "Failed to get PostgreSQL clusters: "
      [] engine = "MongoDB"    -> "Failed to get MongoDB clusters: "
      [] engine = "MariaDB"    -> "Failed to get MariaDB clusters: "
      [] engine = "InMemoryDB" -> "Failed to get In-Memory DB instances: "

EngineItemLabel(engine) ==
    CASE engine = "PostgreSQL" -> "PostgreSQL cluster "
      [] engine = "MongoDB"    -> "MongoDB cluster "
      [] engine = "MariaDB"    -> "MariaDB cluster "
      [] engine = "InMemoryDB" -> "In-Memory DB instance "

RECURSIVE EngineStateIssues(_, _)
EngineStateIssues(engine, items) ==
    IF items = <<>> THEN <<>>
    ELSE (IF Head(items).State # "AVAILABLE" /\ Head(items).State # "ACTIVE"
          THEN << <<EngineItemLabel(engine), Head(items).Name, " state: ", Head(items).State>> >>
          ELSE <<>>)
         \o EngineStateIssues(engine, Tail(items))

\* one of the four blocks of CheckDBaaS
EngineIssues(engine, listed) ==
    IF listed.err # NoErr THEN << <<EngineListLabel(engine)>> \o listed.err >>
    ELSE EngineStateIssues(engine, listed.items)

CheckDBaaS(answers) ==
    LET listed == [e \in DOMAIN answers |-> makeDBaaSRequest(answers[e])]
    IN  [PostgreSQL |-> listed.PostgreSQL.items,
         MongoDB    |-> listed.MongoDB.items,
         MariaDB    |-> listed.MariaDB.items,
         InMemoryDB |-> listed.InMemoryDB.items,
         Issues     |-> EngineIssues("PostgreSQL", listed.PostgreSQL)
                        \o EngineIssues("MongoDB", listed.MongoDB)
                        \o EngineIssues("MariaDB", listed.MariaDB)
                        \o EngineIssues("InMemoryDB", listed.InMemoryDB)]

DBStates == {"AVAILABLE", "ACTIVE", "BUSY"}

EngineAnswers ==
    {[err |-> <<"connection refused">>, StatusCode |-> 0, decodes |-> FALSE, items |-> <<>>]}
    \cup {[err |-> NoErr, StatusCode |-> 200, decodes |-> TRUE, items |-> Named(ItemNames, q)] :
             q \in SeqsUpTo(DBStates, MaxItems)}
    \cup {[err |-> NoErr, StatusCode |-> 200, decodes |-> FALSE, items |-> <<>>]}
    \cup {[err |-> NoErr, StatusCode |-> c, decodes |-> TRUE, items |-> <<>>] : c \in {204, 404, 500}}
    \cup {[err |-> NoErr, StatusCode |-> 404, decodes |-> TRUE,
           items |-> Named(ItemNames, <<"BUSY">>)]}

DBaaSInit ==
    /\ UnitInit("CheckDBaaS")
    /\ callIn \in {Some(a) : a \in [PostgreSQL : EngineAnswers, MongoDB : EngineAnswers,
                                    MariaDB : EngineAnswers, InMemoryDB : EngineAnswers]}

CheckDBaaSCall ==
    /\ mainpc = "CheckDBaaS"
    /\ callOut = None
    /\ callOut' = Some(CheckDBaaS(callIn[1]))
    /\ UNCHANGED callIn
    /\ UNCHANGED cmdVars
    /\ UNCHANGED aggVars
    /\ UNCHANGED feedVars

DBaaSNext == CheckDBaaSCall

SpecDBaaS == DBaaSInit /\ [][DBaaSNext]_vars

\* the issues of a DBaaSStatus that belong to one engine
IssuesOfEngine(engine, list) ==
    StartingWith(EngineListLabel(engine), list) \cup StartingWith(EngineItemLabel(engine), list)

\* C19: for each engine, an HTTP 404 gives an empty list and no issue of
\* that engine; any other response outside 2xx gives an empty list and
\* exactly one issue "Failed to get ...: API returned status <code>" of
\* that engine; and whatever the other engines answer, an engine that
\* answers 200 with a valid body is reported with its items and one issue
\* per item that is neither AVAILABLE nor ACTIVE.
C19_DBaaSPerEngine ==
    callOut # None =>
        \A k \in 1..Len(Engines) :
            LET e    == Engines[k]
                a    == callIn[1][e]
                mine == IssuesOfEngine(e, callOut[1].Issues)
            IN  /\ (a.err = NoErr /\ a.StatusCode = 404) =>
                       callOut[1][e] = <<>> /\ mine = {}
                /\ (a.err = NoErr /\ a.StatusCode # 404
                    /\ (a.StatusCode < 200 \/ a.StatusCode > 299)) =>
                       /\ callOut[1][e] = <<>>
                       /\ Cardinality(mine) = 1
                       /\ \A j \in mine :
                              callOut[1].Issues[j] =
                                  <<EngineListLabel(e), "API returned status ">> \o Itoa(a.StatusCode)
                /\ (a.err = NoErr /\ a.StatusCode = 200 /\ a.decodes) =>
                       /\ callOut[1][e] = a.items
                       /\ Cardinality(mine) = Cardinality(InStates(a.items, {"BUSY"}))
                       /\ \A j \in mine : callOut[1].Issues[j][1] = EngineItemLabel(e)

C19_Witness ==
    /\ callOut # None
    /\ callIn[1].PostgreSQL.StatusCode = 500
    /\ callIn[1].MongoDB.StatusCode = 404
    /\ callIn[1].MongoDB.items # <<>>
    /\ callIn[1].MariaDB.StatusCode = 200
    /\ callIn[1].InMemoryDB.StatusCode = 200
    /\ callOut[1].MongoDB = <<>>
    /\ callOut[1].Issues =
           << <<"Failed to get PostgreSQL clusters: ", "API returned status ", "5", "0", "0">>,
              <<"MariaDB cluster ", "item-1", " state: ", "BUSY">> >>

(***************************************************************************)
(* internal/ionos: CheckAuthentication on its own, for a Client value with *)
(* any combination of Token, Username and Password.                        *)
(***************************************************************************)
\* base64.StdEncoding.EncodeToString([]byte(username + ":" + password))
StdBase64(username, password) ==
    CASE username = "user" /\ password = "pass" -> "dXNlcjpwYXNz"
      [] username = "user" /\ password = ""     -> "dXNlcjo="
      [] username = ""     /\ password = "pass" -> "OnBhc3M="
      [] username = ""     /\ password = ""     -> "Og=="

\* the Authorization header CheckAuthentication sets on its request
AuthorizationHeader_mut(client) ==
    IF client.Username # ""
    THEN <<"Basic ", StdBase64(client.Username, client.Password)>>
    ELSE <<"Bearer ", client.Token>>

AuthorizationHeader(client) ==
    IF client.Token # ""
    THEN <<"Bearer ", client.Token>>
    ELSE <<"Basic ", StdBase64(client.Username, client.Password)>>

Clients ==
    [BaseURL : {DefaultAPIURL}, Token : {"", "tok"}, Username : {"", "user"},
     Password : {"", "pass"}]

AuthAnswers ==
    {[err |-> <<"connection refused">>, StatusCode |-> 0]}
    \cup {[err |-> NoErr, StatusCode |-> c] :
             c \in {199, 200, 204, 299, 300, 401, 403, 404, 500}}

AuthInit ==
    /\ UnitInit("CheckAuthentication")
    /\ callIn \in {Some([client |-> c, resp |-> r]) : c \in Clients, r \in AuthAnswers}

CheckAuthenticationCall ==
    /\ mainpc = "CheckAuthentication"
    /\ callOut = None
    /\ callOut' = Some([header |-> AuthorizationHeader(callIn[1].client),
                        result |-> CheckAuthentication(callIn[1].resp)])
    /\ UNCHANGED callIn
    /\ UNCHANGED cmdVars
    /\ UNCHANGED aggVars
    /\ UNCHANGED feedVars

AuthNext == CheckAuthenticationCall

SpecAuth == AuthInit /\ [][AuthNext]_vars

\* C20: CheckAuthentication is OK exactly on a 2xx response; 401 gives
\* "invalid credentials", 403 "insufficient permissions", any other status
\* "Unexpected status code: <code>", a request without response "Request
\* failed: ..."; its request carries "Bearer <token>" whenever the client
\* has a token and a Basic header exactly when it has none.
C20_AuthClassification ==
    callOut # None =>
        LET c      == callIn[1].client
            resp   == callIn[1].resp
            code   == resp.StatusCode
            result == callOut[1].result
            header == callOut[1].header
        IN  /\ result.OK <=> (resp.err = NoErr /\ code >= 200 /\ code <= 299)
            /\ resp.err # NoErr => result.Message[1] = "Request failed: "
            /\ (resp.err = NoErr /\ code = 401) =>
                   result.Message = <<"Authentication failed: invalid credentials">>
            /\ (resp.err = NoErr /\ code = 403) =>
                   result.Message = <<"Authentication failed: insufficient permissions">>
            /\ (resp.err = NoErr /\ code \notin {401, 403} /\ (code < 200 \/ code > 299)) =>
                   result.Message = <<"Unexpected status code: ">> \o Itoa(code)
            /\ c.Token # "" => header = <<"Bearer ", c.Token>>
            /\ c.Token = "" => header[1] = "Basic "

C20_Witness ==
    /\ callOut # None
    /\ callIn[1].client.Token = "tok"
    /\ callIn[1].client.Username = "user"
    /\ callIn[1].client.Password = "pass"
    /\ callIn[1].resp.StatusCode = 403
    /\ callOut[1].header = <<"Bearer ", "tok">>
    /\ ~callOut[1].result.OK

(***************************************************************************)
(* internal/k8s: the per-resource checks of CheckHealth.  Each takes the   *)
(* items its list call returned.  A "<namespace>/<name>" identifier is     *)
(* <<namespace, "/", name>>.                                               *)
(***************************************************************************)
QualifiedName(obj) == <<obj.Namespace, "/", obj.Name>>

Repeat(x, n) == [i \in 1..n |-> x]

\* the container statuses of a pod that wait with one of the reasons
WaitingWith(pod, reasons) ==
    Cardinality({i \in 1..Len(pod.ContainerStatuses) :
        /\ pod.ContainerStatuses[i].Waiting # None
        /\ pod.ContainerStatuses[i].Waiting[1] \in reasons})

CrashLoopHits(pod) ==
    IF pod.Phase = "Running" THEN WaitingWith(pod, {"CrashLoopBackOff"}) ELSE 0

ImagePullHits(pod) ==
    IF pod.Phase = "Running" THEN WaitingWith(pod, {"ImagePullBackOff", "ErrImagePull"}) ELSE 0

\* what one pod adds to result.Running: the switch on pod.Status.Phase
RunningDelta_mut(pod) ==
    CASE pod.Phase = "Running" -> IF CrashLoopHits(pod) + ImagePullHits(pod) = 0 THEN 1 ELSE 0
      [] pod.Phase = "Pending" -> 0
      [] pod.Phase = "Failed"  -> 0
      [] OTHER                 -> 0

RunningDelta(pod) ==
    CASE pod.Phase = "Running" -> IF CrashLoopHits(pod) + ImagePullHits(pod) = 0 THEN 1 ELSE 0
      [] pod.Phase = "Pending" -> 0
      [] pod.Phase = "Failed"  -> 0
      [] OTHER                 -> 1

RECURSIVE checkPods(_)
checkPods(pods) ==
    IF pods = <<>>
    THEN [Total |-> 0, Running |-> 0, CrashLoopBackOff |-> <<>>, ImagePullBackOff |-> <<>>,
          Pending |-> <<>>, Failed |-> <<>>]
    ELSE LET pod == Head(pods)
             podName == QualifiedName(pod)
             rest == checkPods(Tail(pods))
         IN  [Total            |-> 1 + rest.Total,
              Running          |-> RunningDelta(pod) + rest.Running,
              CrashLoopBackOff |-> Repeat(podName, CrashLoopHits(pod)) \o rest.CrashLoopBackOff,
              ImagePullBackOff |-> Repeat(podName, ImagePullHits(pod)) \o rest.ImagePullBackOff,
              Pending          |-> (IF pod.Phase = "Pending" THEN <<podName>> ELSE <<>>)
                                   \o rest.Pending,
              Failed           |-> (IF pod.Phase = "Failed" THEN <<podName>> ELSE <<>>)
                                   \o rest.Failed]

\* `*deploy.Spec.Replicas` of a nil pointer: the goroutine panics
DerefPanics(deployments) ==
    \E i \in 1..Len(deployments) : deployments[i].Replicas = None

\* the comparison of the loop body
DeploymentAvailable(deploy) == deploy.AvailableReplicas >= deploy.Replicas[1]

\* checkDeployments for deployments that all have Spec.Replicas set
RECURSIVE checkDeployments(_)
checkDeployments(deployments) ==
    IF deployments = <<>>
    THEN [Total |-> 0, Available |-> 0, Unavailable |-> <<>>]
    ELSE LET deploy == Head(deployments)
             rest == checkDeployments(Tail(deployments))
         IN  [Total       |-> 1 + rest.Total,
              Available   |-> (IF DeploymentAvailable(deploy) THEN 1 ELSE 0) + rest.Available,
              Unavailable |-> (IF DeploymentAvailable(deploy) THEN <<>>
                               ELSE <<QualifiedName(deploy)>>) \o rest.Unavailable]

RECURSIVE checkPVCs(_)
checkPVCs(pvcs) ==
    IF pvcs = <<>>
    THEN [Total |-> 0, Bound |-> 0, Pending |-> <<>>]
    ELSE LET pvc == Head(pvcs)
             rest == checkPVCs(Tail(pvcs))
         IN  [Total   |-> 1 + rest.Total,
              Bound   |-> (IF pvc.Phase = "Bound" THEN 1 ELSE 0) + rest.Bound,
              Pending |-> (IF pvc.Phase = "Pending" THEN <<QualifiedName(pvc)>> ELSE <<>>)
                          \o rest.Pending]

\* only services of type LoadBalancer are counted
RECURSIVE checkServices(_)
checkServices(services) ==
    IF services = <<>>
    THEN [Total |-> 0, Ready |-> 0, NoIP |-> <<>>]
    ELSE LET svc == Head(services)
             rest == checkServices(Tail(services))
         IN  IF svc.Type # "LoadBalancer" THEN rest
             ELSE [Total |-> 1 + rest.Total,
                   Ready |-> (IF svc.Ingress > 0 THEN 1 ELSE 0) + rest.Ready,
                   NoIP  |-> (IF svc.Ingress > 0 THEN <<>> ELSE <<QualifiedName(svc)>>)
                             \o rest.NoIP]

\* time.Time.After
After(t, u) == t > u

\* warning events of the last hour; a zero LastTimestamp falls back to EventTime
RECURSIVE checkEvents(_, _)
checkEvents(events, now) ==
    IF events = <<>>
    THEN [Warnings |-> <<>>]
    ELSE LET event == Head(events)
             eventTime == IF event.LastTimestamp = None THEN event.EventTime
                          ELSE event.LastTimestamp[1]
             rest == checkEvents(Tail(events), now)
         IN  [Warnings |-> (IF After(eventTime, now - 1)
                            THEN << QualifiedName(event) \o <<": ", event.Message>> >>
                            ELSE <<>>) \o rest.Warnings]

(***************************************************************************)
(* internal/k8s: checkCertificates.  An ingress is its namespace and its   *)
(* TLS blocks; secrets maps <<namespace, secret name>> to what resolving   *)
(* the secret gives: kind "cert" with the hours from now to NotAfter, or   *)
(* the step that failed.  time.Until(...).Hours() is a whole number here.  *)
(***************************************************************************)
\* Go's int(x / 24) of a float64: truncation toward zero
DaysUntilExpiry(hours) ==
    IF hours >= 0 THEN hours \div 24 ELSE -((-hours) \div 24)

\* the if / else if / else on daysUntilExpiry
CertBucket_mut(days) ==
    IF days < 0 THEN "expired" ELSE IF days <= 30 THEN "expiring" ELSE "valid"

CertBucket(days) ==
    IF days < 0 THEN "expired" ELSE IF days < 30 THEN "expiring" ELSE "valid"

\* the (ingress, tls) pairs in the order the two loops visit them
RECURSIVE TLSRefs(_)
TLSRefs(ingresses) ==
    IF ingresses = <<>> THEN <<>>
    ELSE LET ing == Head(ingresses)
         IN  [i \in 1..Len(ing.TLS) |->
                 [Namespace |-> ing.Namespace, SecretName |-> ing.TLS[i].SecretName,
                  Hosts |-> ing.TLS[i].Hosts]]
             \o TLSRefs(Tail(ingresses))

CertInfoOf(ref, secret, now) ==
    [Host      |-> IF Len(ref.Hosts) > 0 THEN ref.Hosts[1] ELSE "",
     Namespace |-> ref.Namespace,
     Secret    |-> ref.SecretName,
     ExpiresIn |-> DaysUntilExpiry(secret.NotAfterIn),
     Expiry    |-> now + secret.NotAfterIn]

AddCert(result, info) ==
    LET bucket == CertBucket(info.ExpiresIn)
    IN  [Total    |-> result.Total + 1,
         Valid    |-> result.Valid + (IF bucket = "valid" THEN 1 ELSE 0),
         Expiring |-> result.Expiring \o (IF bucket = "expiring" THEN <<info>> ELSE <<>>),
         Expired  |-> result.Expired \o (IF bucket = "expired" THEN <<info>> ELSE <<>>)]

RECURSIVE CertWalk(_, _, _, _, _)
CertWalk(refs, seen, secrets, now, result) ==
    IF refs = <<>> THEN result
    ELSE LET ref == Head(refs)
             key == <<ref.Namespace, ref.SecretName>>
         IN  IF ref.SecretName = "" \/ key \in seen
             THEN CertWalk(Tail(refs), seen, secrets, now, result)
             ELSE IF secrets[key].kind # "cert"
             THEN CertWalk(Tail(refs), seen \cup {key}, secrets, now, result)
             ELSE CertWalk(Tail(refs), seen \cup {key}, secrets, now,
                           AddCert(result, CertInfoOf(ref, secrets[key], now)))

checkCertificates(ingresses, secrets, now) ==
    CertWalk(TLSRefs(ingresses), {}, secrets, now,
             [Total |-> 0, Valid |-> 0, Expiring |-> <<>>, Expired |-> <<>>])

(***************************************************************************)
(* internal/k8s: CheckHealth.  api holds, per resource, what the list call *)
(* answers, [err, items], and the secrets.                                 *)
(***************************************************************************)
\* `if err != nil` after a check that lists a resource
ListFailed_mut(answer) == FALSE

ListFailed(answer) == answer.err # NoErr

HealthError(what, err) == [health |-> None, err |-> <<"failed to check ", what, ": ">> \o err]

CheckHealth(api, now) ==
    IF ListFailed(api.nodes) THEN HealthError("nodes", api.nodes.err)
    ELSE IF ListFailed(api.pods) THEN HealthError("pods", api.pods.err)
    ELSE IF ListFailed(api.deployments) THEN HealthError("deployments", api.deployments.err)
    ELSE IF ListFailed(api.pvcs) THEN HealthError("pvcs", api.pvcs.err)
    ELSE IF ListFailed(api.services) THEN HealthError("services", api.services.err)
    ELSE IF ListFailed(api.events) THEN HealthError("events", api.events.err)
    ELSE IF ListFailed(api.ingresses) THEN HealthError("certificates", api.ingresses.err)
    ELSE [health |-> Some([Nodes       |-> checkNodes(api.nodes.items),
                           Pods        |-> checkPods(api.pods.items),
                           Deployments |-> checkDeployments(api.deployments.items),
                           PVCs        |-> checkPVCs(api.pvcs.items),
                           Services    |-> checkServices(api.services.items),
                           Events      |-> checkEvents(api.events.items, now),
                           Certs       |-> checkCertificates(api.ingresses.items,
                                                             api.secrets, now)]),
          err |-> NoErr]

\* CheckHealth panics when it reaches checkDeployments with a nil Spec.Replicas
CheckHealthPanics(api) ==
    /\ ~ListFailed(api.nodes)
    /\ ~ListFailed(api.pods)
    /\ ~ListFailed(api.deployments)
    /\ DerefPanics(api.deployments.items)

(***************************************************************************)
(* CheckHealth on its own: every combination of failing list calls, with   *)
(* secrets that resolve or fail at each step.                              *)
(***************************************************************************)
ListErr == [err |-> <<"timeout">>, items |-> <<>>]

Listed(items) == [err |-> NoErr, items |-> items]

NodeAnswers ==
    {ListErr, Listed(<<>>),
     Listed(<<[Name |-> "node-1", Ready |-> FALSE, MemoryPressure |-> FALSE,
               DiskPressure |-> FALSE, PIDPressure |-> FALSE]>>)}

PodAnswers ==
    {ListErr,
     Listed(<<[Namespace |-> "default", Name |-> "web", Phase |-> "Running",
               ContainerStatuses |-> <<[Waiting |-> None]>>]>>)}

\* the last one is a deployment whose Spec.Replicas is nil
DeploymentAnswers ==
    {ListErr,
     Listed(<<[Namespace |-> "default", Name |-> "api", AvailableReplicas |-> 1,
               Replicas |-> Some(2)]>>),
     Listed(<<[Namespace |-> "default", Name |-> "api", AvailableReplicas |-> 0,
               Replicas |-> None]>>)}

PVCAnswers ==
    {ListErr, Listed(<<[Namespace |-> "default", Name |-> "data", Phase |-> "Pending"]>>)}

ServiceAnswers ==
    {ListErr,
     Listed(<<[Namespace |-> "default", Name |-> "lb", Type |-> "LoadBalancer", Ingress |-> 0],
              [Namespace |-> "default", Name |-> "db", Type |-> "ClusterIP", Ingress |-> 0]>>)}

EventAnswers ==
    {ListErr,
     Listed(<<[Namespace |-> "default", Name |-> "web", Message |-> "Back-off",
               LastTimestamp |-> None, EventTime |-> NowHour]>>)}

IngressAnswers ==
    {ListErr, Listed(<<>>),
     Listed(<<[Namespace |-> "default",
               TLS |-> <<[SecretName |-> "tls-a", Hosts |-> <<"a.example.com">>],
                         [SecretName |-> "tls-b", Hosts |-> <<>>]>>]>>)}

\* what resolving a secret can give
SecretFailures == {"get failed", "no tls.crt", "no PEM block", "parse failed"}

Unresolved(kind) == [kind |-> kind, NotAfterIn |-> 0]

Certificate(hours) == [kind |-> "cert", NotAfterIn |-> hours]

HealthSecrets ==
    {(<<"default", "tls-a">> :> a) @@ (<<"default", "tls-b">> :> b) :
        a \in {Unresolved(k) : k \in SecretFailures} \cup {Certificate(240)},
        b \in {Unresolved("get failed"), Certificate(-48)}}

HealthApis ==
    [nodes : NodeAnswers, pods : PodAnswers, deployments : DeploymentAnswers,
     pvcs : PVCAnswers, services : ServiceAnswers, events : EventAnswers,
     ingresses : IngressAnswers, secrets : HealthSecrets]

CheckHealthInit ==
    /\ UnitInit("CheckHealth")
    /\ callIn \in {Some(api) : api \in HealthApis}

CheckHealthCall ==
    /\ mainpc = "CheckHealth"
    /\ callOut = None
    /\ ~crashed
    /\ IF CheckHealthPanics(callIn[1])
       THEN crashed' = TRUE /\ callOut' = callOut
       ELSE crashed' = crashed /\ callOut' = Some(CheckHealth(callIn[1], NowHour))
    /\ UNCHANGED callIn
    /\ UNCHANGED cmdVars
    /\ UNCHANGED <<report, issues, wg, pc, todo, local, appended, outcome, ret>>
    /\ UNCHANGED feedVars

CheckHealthNext == CheckHealthCall

SpecCheckHealth == CheckHealthInit /\ [][CheckHealthNext]_vars

ListCalls == {"nodes", "pods", "deployments", "pvcs", "services", "events", "ingresses"}

\* C21: when CheckHealth returns, any failed list call among nodes, pods,
\* deployments, claims, services, events and ingresses made it return an
\* error and no HealthResult; when no list call failed it returns a
\* HealthResult and no error, whichever secrets could not be resolved.
C21_AllOrNothing ==
    (mainpc = "CheckHealth" /\ callOut # None) =>
        LET api == callIn[1]
            r == callOut[1]
        IN  /\ (\E l \in ListCalls : api[l].err # NoErr) =>
                   r.health = None /\ r.err # NoErr
            /\ (\A l \in ListCalls : api[l].err = NoErr) =>
                   /\ r.err = NoErr
                   /\ r.health # None
                   /\ r.health[1].Certs.Total =
                          Cardinality({k \in DOMAIN api.secrets :
                              /\ api.secrets[k].kind = "cert"
                              /\ \E i \in 1..Len(api.ingresses.items) :
                                    \E j \in 1..Len(api.ingresses.items[i].TLS) :
                                        k = <<api.ingresses.items[i].Namespace,
                                              api.ingresses.items[i].TLS[j].SecretName>>})

C21_Witness ==
    /\ mainpc = "CheckHealth"
    /\ callOut # None
    /\ \A l \in ListCalls \ {"ingresses"} : callIn[1][l].err = NoErr
    /\ callIn[1].ingresses.err # NoErr
    /\ callOut[1] = [health |-> None,
                     err |-> <<"failed to check ", "certificates", ": ", "timeout">>]

(***************************************************************************)
(* checkCertificates on its own: ingresses that name two secrets, once or  *)
(* repeatedly, and certificates that expire around the bucket boundaries.  *)
(***************************************************************************)
\* hours from now to NotAfter: two days ago to 31 days ahead
ExpiryHours == {-49, -24, -23, -1, 0, 23, 24, 240, 719, 720, 744}

SecretOutcomes == {Unresolved(k) : k \in SecretFailures} \cup {Certificate(h) : h \in ExpiryHours}

CertSecrets ==
    {(<<"default", "tls-a">> :> a) @@ (<<"default", "tls-b">> :> b) :
        a \in SecretOutcomes, b \in SecretOutcomes}

CertIngresses ==
    {<<>>,
     <<[Namespace |-> "default",
        TLS |-> <<[SecretName |-> "tls-a", Hosts |-> <<"a.example.com", "www.example.com">>],
                  [SecretName |-> "tls-b", Hosts |-> <<>>]>>]>>,
     <<[Namespace |-> "default",
        TLS |-> <<[SecretName |-> "tls-a", Hosts |-> <<"a.example.com">>],
                  [SecretName |-> "", Hosts |-> <<"plain.example.com">>]>>],
       [Namespace |-> "default",
        TLS |-> <<[SecretName |-> "tls-a", Hosts |-> <<"b.example.com">>]>>]>>}

CertInit ==
    /\ UnitInit("checkCertificates")
    /\ callIn \in {Some([ingresses |-> a, secrets |-> s]) :
                      a \in {ListErr} \cup {Listed(i) : i \in CertIngresses},
                      s \in CertSecrets}

CheckCertificatesCall ==
    /\ mainpc = "checkCertificates"
    /\ callOut = None
    /\ LET in == callIn[1]
       IN  callOut' =
               IF in.ingresses.err # NoErr
               THEN Some([result |-> None, err |-> in.ingresses.err])
               ELSE Some([result |-> Some(checkCertificates(in.ingresses.items,
                                                           in.secrets, NowHour)),
                          err |-> NoErr])
    /\ UNCHANGED callIn
    /\ UNCHANGED cmdVars
    /\ UNCHANGED aggVars
    /\ UNCHANGED feedVars

CertNext == CheckCertificatesCall

SpecCerts == CertInit /\ [][CertNext]_vars

\* the secrets some TLS block of the ingresses names and that resolve to a
\* certificate
ResolvedCerts(in) ==
    {k \in DOMAIN in.secrets :
        /\ in.secrets[k].kind = "cert"
        /\ \E i \in 1..Len(in.ingresses.items) :
              \E j \in 1..Len(in.ingresses.items[i].TLS) :
                  k = <<in.ingresses.items[i].Namespace,
                        in.ingresses.items[i].TLS[j].SecretName>>}

\* the entries of a CertInfo list that belong to the secret k
EntriesOf(k, infos) ==
    Cardinality({i \in 1..Len(infos) : infos[i].Namespace = k[1] /\ infos[i].Secret = k[2]})

\* C22: with d the days until expiry of a resolved certificate, d < 0 puts
\* it in Expired only, 0 <= d <= 29 in Expiring only and d >= 30 counts it as
\* valid only, so Total = Valid + |Expiring| + |Expired|.
C22_OneBucketPerCert ==
    (mainpc = "checkCertificates" /\ callOut # None /\ callOut[1].err = NoErr) =>
        LET in == callIn[1]
            r == callOut[1].result[1]
            certs == ResolvedCerts(in)
            d(k) == DaysUntilExpiry(in.secrets[k].NotAfterIn)
        IN  /\ r.Total = Cardinality(certs)
            /\ r.Total = r.Valid + Len(r.Expiring) + Len(r.Expired)
            /\ r.Valid = Cardinality({k \in certs : d(k) >= 30})
            /\ Len(r.Expiring) = Cardinality({k \in certs : d(k) >= 0 /\ d(k) <= 29})
            /\ Len(r.Expired) = Cardinality({k \in certs : d(k) < 0})
            /\ \A k \in certs :
                  /\ d(k) < 0 => EntriesOf(k, r.Expired) = 1 /\ EntriesOf(k, r.Expiring) = 0
                  /\ (d(k) >= 0 /\ d(k) <= 29) =>
                         EntriesOf(k, r.Expiring) = 1 /\ EntriesOf(k, r.Expired) = 0
                  /\ d(k) >= 30 => EntriesOf(k, r.Expiring) = 0 /\ EntriesOf(k, r.Expired) = 0
            /\ \A i \in 1..Len(r.Expired) : r.Expired[i].ExpiresIn < 0
            /\ \A i \in 1..Len(r.Expiring) :
                  r.Expiring[i].ExpiresIn >= 0 /\ r.Expiring[i].ExpiresIn <= 29

C22_Witness ==
    /\ mainpc = "checkCertificates"
    /\ callOut # None
    /\ callOut[1].err = NoErr
    /\ callIn[1].secrets[<<"default", "tls-a">>] = Certificate(240)
    /\ callIn[1].secrets[<<"default", "tls-b">>] = Certificate(720)
    /\ callOut[1].result[1].Total = 2
    /\ callOut[1].result[1].Valid = 1
    /\ Len(callOut[1].result[1].Expiring) = 1
    /\ callOut[1].result[1].Expiring[1].ExpiresIn = 10
    /\ callOut[1].result[1].Expiring[1].Secret = "tls-a"

\* C28: a resolved certificate whose NotAfter is already in the past is in
\* Expired and not in Expiring, and is not counted as valid.
C28_PastExpiryIsExpired ==
    (mainpc = "checkCertificates" /\ callOut # None /\ callOut[1].err = NoErr) =>
        LET in == callIn[1]
            r == callOut[1].result[1]
        IN  \A k \in ResolvedCerts(in) :
                in.secrets[k].NotAfterIn < 0 =>
                    /\ EntriesOf(k, r.Expired) = 1
                    /\ EntriesOf(k, r.Expiring) = 0

(***************************************************************************)
(* checkPods on its own: up to MaxEntities pods of every phase, Running    *)
(* pods with containers that wait for various reasons.                     *)
(***************************************************************************)
Containers(reasons) == [i \in 1..Len(reasons) |-> [Waiting |-> reasons[i]]]

PodKinds ==
    {[Phase |-> ph, ContainerStatuses |-> Containers(<<None>>)] :
        ph \in {"Running", "Pending", "Failed", "Succeeded", "Unknown"}}
    \cup {[Phase |-> "Running", ContainerStatuses |-> Containers(w)] :
            w \in {<<>>,
                   <<Some("CrashLoopBackOff")>>,
                   <<Some("ContainerCreating")>>,
                   <<Some("CrashLoopBackOff"), Some("CrashLoopBackOff")>>,
                   <<Some("CrashLoopBackOff"), Some("ErrImagePull")>>,
                   <<None, Some("ImagePullBackOff")>>}}
    \cup {[Phase |-> "Pending", ContainerStatuses |-> Containers(<<Some("ImagePullBackOff")>>)]}

PodLists ==
    {[i \in 1..Len(q) |->
        [Namespace |-> "default", Name |-> ItemNames[i], Phase |-> q[i].Phase,
         ContainerStatuses |-> q[i].ContainerStatuses]] :
        q \in SeqsUpTo(PodKinds, MaxEntities)}

PodsInit ==
    /\ UnitInit("checkPods")
    /\ callIn \in {Some(a) : a \in {ListErr} \cup {Listed(p) : p \in PodLists}}

CheckPodsCall ==
    /\ mainpc = "checkPods"
    /\ callOut = None
    /\ callOut' = IF callIn[1].err # NoErr
                  THEN Some([result |-> None, err |-> callIn[1].err])
                  ELSE Some([result |-> Some(checkPods(callIn[1].items)), err |-> NoErr])
    /\ UNCHANGED callIn
    /\ UNCHANGED cmdVars
    /\ UNCHANGED aggVars
    /\ UNCHANGED feedVars

PodsNext == CheckPodsCall

SpecPods == PodsInit /\ [][PodsNext]_vars

\* how often the identifier of pods[i] occurs in a list
TimesListed(pods, i, list) ==
    Cardinality({j \in 1..Len(list) : list[j] = <<pods[i].Namespace, "/", pods[i].Name>>})

\* the containers of pods[i] that wait with one of the reasons
WaitingContainers(pods, i, reasons) ==
    Cardinality({c \in 1..Len(pods[i].ContainerStatuses) :
        pods[i].ContainerStatuses[c].Waiting \in {Some(x) : x \in reasons}})

\* C24: a Pending pod is in the pending list and a Failed pod in the failed
\* list; a Running pod is in the crash-loop or image-pull list once per
\* container waiting with that reason and counts as running only when no
\* container matched; any other phase counts as running; so
\* Running + |Pending| + |Failed| + |CrashLoopBackOff| + |ImagePullBackOff|
\* is at least Total.
C24_EveryPodInABucket ==
    (mainpc = "checkPods" /\ callOut # None /\ callOut[1].err = NoErr) =>
        LET pods == callIn[1].items
            r == callOut[1].result[1]
            idx == 1..Len(pods)
            crash(i) == WaitingContainers(pods, i, {"CrashLoopBackOff"})
            pull(i) == WaitingContainers(pods, i, {"ImagePullBackOff", "ErrImagePull"})
            healthy == {i \in idx :
                           \/ pods[i].Phase \notin {"Running", "Pending", "Failed"}
                           \/ pods[i].Phase = "Running" /\ crash(i) = 0 /\ pull(i) = 0}
        IN  /\ r.Total = Len(pods)
            /\ r.Running = Cardinality(healthy)
            /\ \A i \in idx :
                  /\ TimesListed(pods, i, r.Pending) = IF pods[i].Phase = "Pending" THEN 1 ELSE 0
                  /\ TimesListed(pods, i, r.Failed) = IF pods[i].Phase = "Failed" THEN 1 ELSE 0
                  /\ TimesListed(pods, i, r.CrashLoopBackOff) =
                         IF pods[i].Phase = "Running" THEN crash(i) ELSE 0
                  /\ TimesListed(pods, i, r.ImagePullBackOff) =
                         IF pods[i].Phase = "Running" THEN pull(i) ELSE 0
                  /\ \/ i \in healthy
                     \/ TimesListed(pods, i, r.Pending) > 0
                     \/ TimesListed(pods, i, r.Failed) > 0
                     \/ TimesListed(pods, i, r.CrashLoopBackOff) > 0
                     \/ TimesListed(pods, i, r.ImagePullBackOff) > 0
            /\ r.Running + Len(r.Pending) + Len(r.Failed)
                   + Len(r.CrashLoopBackOff) + Len(r.ImagePullBackOff) >= r.Total

\* a Running pod with two crash-looping containers next to a Succeeded pod:
\* the buckets add up to more than Total
C24_Witness ==
    /\ mainpc = "checkPods"
    /\ callOut # None
    /\ callOut[1].err = NoErr
    /\ Len(callIn[1].items) = 2
    /\ callIn[1].items[1].Phase = "Running"
    /\ callIn[1].items[2].Phase = "Succeeded"
    /\ callOut[1].result[1].Total = 2
    /\ callOut[1].result[1].Running = 1
    /\ callOut[1].result[1].CrashLoopBackOff =
           << <<"default", "/", "item-1">>, <<"default", "/", "item-1">> >>

(***************************************************************************)
(* checkDeployments on its own: up to MaxEntities deployments, Spec.Replicas *)
(* set or nil.                                                             *)
(***************************************************************************)
DeploymentKinds ==
    [AvailableReplicas : 0..2, Replicas : {None, Some(0), Some(1), Some(2)}]

DeploymentLists ==
    {[i \in 1..Len(q) |->
        [Namespace |-> "default", Name |-> ItemNames[i],
         AvailableReplicas |-> q[i].AvailableReplicas, Replicas |-> q[i].Replicas]] :
        q \in SeqsUpTo(DeploymentKinds, MaxEntities)}

DeploymentsInit ==
    /\ UnitInit("checkDeployments")
    /\ callIn \in {Some(a) : a \in {ListErr} \cup {Listed(d) : d \in DeploymentLists}}

\* the call returns, or panics in the loop on a nil Spec.Replicas
CheckDeploymentsCall ==
    /\ mainpc = "checkDeployments"
    /\ callOut = None
    /\ ~crashed
    /\ IF callIn[1].err # NoErr
       THEN /\ callOut' = Some([result |-> None, err |-> callIn[1].err])
            /\ crashed' = crashed
       ELSE IF DerefPanics(callIn[1].items)
       THEN /\ crashed' = TRUE
            /\ callOut' = callOut
       ELSE /\ callOut' = Some([result |-> Some(checkDeployments(callIn[1].items)),
                                err |-> NoErr])
            /\ crashed' = crashed
    /\ UNCHANGED callIn
    /\ UNCHANGED cmdVars
    /\ UNCHANGED <<report, issues, wg, pc, todo, local, appended, outcome, ret>>
    /\ UNCHANGED feedVars

DeploymentsNext == CheckDeploymentsCall

SpecDeployments == DeploymentsInit /\ [][DeploymentsNext]_vars

\* the desired replicas the claim evaluates a deployment with
DesiredOrZero(deploy) == IF deploy.Replicas = None THEN 0 ELSE deploy.Replicas[1]

\* C25: checkDeployments never crashes, and what it returns counts a
\* deployment as available iff availableReplicas >= desiredReplicas, with
\* desired = 0 when the deployment has no desired-replica count, and lists
\* it as unavailable otherwise, so Available + |Unavailable| = Total.
C25_DeploymentsNeverCrash ==
    mainpc = "checkDeployments" =>
        /\ ~crashed
        /\ (callOut # None /\ callOut[1].err = NoErr) =>
               LET deployments == callIn[1].items
                   r == callOut[1].result[1]
                   ok == {i \in 1..Len(deployments) :
                             deployments[i].AvailableReplicas >= DesiredOrZero(deployments[i])}
               IN  /\ r.Total = Len(deployments)
                   /\ r.Available = Cardinality(ok)
                   /\ Len(r.Unavailable) = Len(deployments) - Cardinality(ok)
                   /\ r.Available + Len(r.Unavailable) = r.Total

(***************************************************************************)
(* Credential resolution on its own: runChecks merges the config file      *)
(* into the environment, then newIONOSClient reads the environment.        *)
(* callIn keeps the file and the environment the process started with.     *)
(***************************************************************************)
ConfigFiles ==
    [Token : {"", "file-token"}, Username : {"", "file-user"},
     Password : {"", "file-pass"}, APIURL : {"", "https://file.example"}]

ConfigEnvs ==
    [IONOS_TOKEN : {"", "env-token"}, IONOS_USERNAME : {"", "env-user"},
     IONOS_PASSWORD : {"", "env-pass"}, IONOS_API_URL : {"", "https://env.example"}]

ConfigInit ==
    /\ mainpc = "config.Load"
    /\ watch = 0
    /\ outputFmt = "text"
    /\ osEnv \in ConfigEnvs
    /\ Idle
    /\ feedIn = None
    /\ feedOut = None
    /\ callIn \in {Some([fileCfg |-> f, env |-> osEnv]) : f \in ConfigFiles}
    /\ callOut = None

\* runChecks up to the mode switch: config.Load, ApplyEnvironment and the
\* four os.Setenv
ConfigMerge(loadErr) ==
    /\ mainpc = "config.Load"
    /\ IF loadErr # NoErr
       THEN /\ cmdErr' = <<"error loading config: ">> \o loadErr
            /\ mainpc' = "config.failed"
            /\ UNCHANGED <<osEnv, callOut>>
       ELSE /\ osEnv' = MergeEnv(callIn[1].fileCfg, osEnv)
            /\ callOut' = Some([cfg |-> ApplyEnvironment(callIn[1].fileCfg, osEnv),
                                made |-> None])
            /\ mainpc' = "config.newIONOSClient"
            /\ cmdErr' = cmdErr
    /\ UNCHANGED <<watch, outputFmt, first, cycle, sleeps, rendered, exitCode>>
    /\ UNCHANGED callIn
    /\ UNCHANGED aggVars
    /\ UNCHANGED feedVars

\* checkIONOS: newIONOSClient() on the merged environment
ConfigNewClient ==
    /\ mainpc = "config.newIONOSClient"
    /\ callOut' = Some([cfg |-> callOut[1].cfg, made |-> Some(NewClientFromEnv(osEnv))])
    /\ mainpc' = "config.done"
    /\ UNCHANGED <<watch, outputFmt, osEnv, first, cycle, sleeps, rendered, exitCode, cmdErr>>
    /\ UNCHANGED callIn
    /\ UNCHANGED aggVars
    /\ UNCHANGED feedVars

ConfigNext ==
    \/ \E e \in LoadErrs : ConfigMerge(e)
    \/ ConfigNewClient

SpecConfig == ConfigInit /\ [][ConfigNext]_vars

\* environment over file, for one setting
EnvOverFile(envValue, fileValue) == IF envValue # "" THEN envValue ELSE fileValue

\* C23: after the merge every setting has the environment's value when the
\* environment sets it and the file's value otherwise, and the client is
\* made with the environment's credentials whenever the environment holds
\* a token, or a username and a password.
C23_EnvironmentOverFile ==
    mainpc = "config.done" =>
        LET file == callIn[1].fileCfg
            env == callIn[1].env
            made == callOut[1].made[1]
        IN  /\ osEnv.IONOS_TOKEN = EnvOverFile(env.IONOS_TOKEN, file.Token)
            /\ osEnv.IONOS_USERNAME = EnvOverFile(env.IONOS_USERNAME, file.Username)
            /\ osEnv.IONOS_PASSWORD = EnvOverFile(env.IONOS_PASSWORD, file.Password)
            /\ osEnv.IONOS_API_URL = EnvOverFile(env.IONOS_API_URL, file.APIURL)
            /\ env.IONOS_TOKEN # "" =>
                   /\ made.err = NoErr
                   /\ made.client[1].Token = env.IONOS_TOKEN
            /\ (env.IONOS_TOKEN = "" /\ env.IONOS_USERNAME # "" /\ env.IONOS_PASSWORD # "") =>
                   /\ made.err = NoErr
                   /\ made.client[1].Token = ""
                   /\ made.client[1].Username = env.IONOS_USERNAME
                   /\ made.client[1].Password = env.IONOS_PASSWORD

(***************************************************************************)
(* Properties of RunChecks and its probers, continued.                     *)
(***************************************************************************)
\* the Report fields a prober assigns
FieldsOf(p) ==
    CASE p = "feed"  -> {"StatusPage"}
      [] p = "cloud" -> {"APICheck", "AuthCheck", "Datacenters", "Clusters"}
      [] p = "k8s"   -> {"Health"}

\* the step is one of prober p: its position moves, nobody else's does
OnlyStepOf(p) ==
    /\ mainpc' = mainpc
    /\ pc[p] \notin {"idle", "return", "done"}
    /\ pc'[p] # pc[p]
    /\ \A q \in Probers \ {p} : pc'[q] = pc[q]

\* C26: a field of the Report changes only when RunChecks makes the new
\* Report, in a step of the prober that owns the field (feed: StatusPage;
\* cloud: APICheck, AuthCheck, Datacenters, Clusters; cluster: Health), or,
\* for Status and Issues, in RunChecks after all three probers are done.
C26_OwnFieldsOnly ==
    [][\A f \in DOMAIN report :
          report'[f] # report[f] =>
              \/ mainpc = "runCheckOnce"
              \/ \E p \in Probers : f \in FieldsOf(p) /\ OnlyStepOf(p)
              \/ f \in {"Status", "Issues"} /\ mainpc = "finalize" /\ AllProbersDone]_vars

\* all three probers have written their sections and two are still running
C26_Witness ==
    /\ mainpc = "wgWait"
    /\ report.StatusPage # None
    /\ report.APICheck # None
    /\ report.Datacenters # None
    /\ report.Health # None
    /\ pc["feed"] = "return"
    /\ pc["cloud"] = "CheckK8sClusters"
    /\ pc["k8s"] = "done"
    /\ issues # <<>>
    /\ report.Issues = <<>>
    /\ report.Status = "OK"

\* every cloud API call of the cycle failed
AllCloudCallsFailed ==
    /\ report.APICheck # None /\ ~report.APICheck[1].OK
    /\ report.AuthCheck # None /\ ~report.AuthCheck[1].OK
    /\ report.Datacenters = None
    /\ report.Clusters = None
    /\ pc["cloud"] = "done"

\* C27: after a failed connectivity check the cloud prober still runs the
\* authentication check and both walks; when all four calls failed it has
\* appended exactly the four issues unreachable, authentication failed,
\* datacenters error and clusters error, and the returned Report is CRITICAL.
C27_FourIssuesCritical ==
    /\ (Returned /\ report.APICheck # None /\ ~report.APICheck[1].OK) =>
           report.AuthCheck # None /\ pc["cloud"] = "done"
    /\ (Returned /\ AllCloudCallsFailed) =>
           /\ Len(appended["cloud"]) = 4
           /\ appended["cloud"][1] = <<"IONOS API unreachable">>
           /\ appended["cloud"][2] = <<"IONOS authentication failed">>
           /\ appended["cloud"][3][1] = "Datacenters: "
           /\ appended["cloud"][4][1] = "K8s clusters: "
           /\ report.Status = "CRITICAL"

RECURSIVE IsSubsequence(_, _)
IsSubsequence(a, b) ==
    IF a = <<>> THEN TRUE
    ELSE IF b = <<>> THEN FALSE
    ELSE IF Head(a) = Head(b) THEN IsSubsequence(Tail(a), Tail(b))
    ELSE IsSubsequence(a, Tail(b))

\* C29: when RunChecks returns, the issues each prober appended are in
\* Report.Issues in the order the prober appended them, and Report.Issues
\* holds nothing else: it is an interleaving of the three sequences.
C29_ProberOrderKept ==
    Returned =>
        /\ \A p \in Probers : IsSubsequence(appended[p], report.Issues)
        /\ Len(report.Issues) = Contributions

(***************************************************************************)
(* RunChecks on its own, from its call to its return, with the Go          *)
(* scheduler's guarantee that a goroutine that can run eventually does     *)
(* and with backend calls that return.                                     *)
(***************************************************************************)
RunChecksInit ==
    /\ mainpc = "runCheckOnce"
    /\ watch = 0
    /\ outputFmt = "text"
    /\ osEnv \in {MergeEnv(f, e) : f \in FileCfgs, e \in OsEnvs}
    /\ Idle
    /\ feedIn = None
    /\ feedOut = None
    /\ callIn = None
    /\ callOut = None

\* the main goroutine inside RunChecks
JoinStep == RunChecksStart \/ WgWait \/ Finalize

FeedStep ==
    \/ \E f \in Fetches : FeedCheckStatus(f, NowHour)
    \/ AppendLoad("feed")
    \/ AppendStore("feed")
    \/ WgDone("feed")

CloudStep ==
    \/ CloudNewClient
    \/ \E n \in NetOutcomes : CloudConnectivity(n)
    \/ \E r \in AuthResponses : CloudAuthentication(r)
    \/ \E w \in Walks("DC1", DCIssueTexts) : CloudDatacenters(w)
    \/ \E w \in Walks("Cluster1", ClusterIssueTexts) : CloudClusters(w)
    \/ AppendLoad("cloud")
    \/ AppendStore("cloud")
    \/ WgDone("cloud")

K8sStep ==
    \/ \E e \in CheckerErrs : K8sNewChecker(e)
    \/ \E o \in HealthOutcomes : K8sCheckHealth(o)
    \/ AppendLoad("k8s")
    \/ AppendStore("k8s")
    \/ WgDone("k8s")

RunChecksNext == JoinStep \/ FeedStep \/ CloudStep \/ K8sStep

SpecRunChecks ==
    /\ RunChecksInit
    /\ [][RunChecksNext]_vars
    /\ WF_vars(JoinStep)
    /\ WF_vars(FeedStep)
    /\ WF_vars(CloudStep)
    /\ WF_vars(K8sStep)

\* C30: while RunChecks waits, the WaitGroup counter is the number of
\* probers that have not yet signalled, no prober signals twice, the wait
\* ends only when all three are done, and once RunChecks waits it
\* eventually returns.
C30_JoinCompletes ==
    /\ [](mainpc = "wgWait" => wg = Cardinality({p \in Probers : pc[p] # "done"}))
    /\ [](~crashed)
    /\ [](mainpc = "finalize" => AllProbersDone)
    /\ (mainpc = "wgWait") ~> Returned

\* all three probers took their failure path and RunChecks returned
C30_Witness ==
    /\ Returned
    /\ wg = 0
    /\ AllProbersDone
    /\ outcome = [p \in Probers |-> "failed"]
    /\ NewClientFromEnv(osEnv).err # NoErr

====
